---- MODULE Spec2Model ----
(***************************************************************************)
(* Model of the Whoop MCP server: the rate-limited, paginated fetch client *)
(* with token refresh (whoop_client.go), the tool handlers that drive it   *)
(* (mcp_protocol.go) and the date-window parsing they share.               *)
(***************************************************************************)
EXTENDS Integers, Sequences, FiniteSets, TLC

(***************************************************************************)
(* Bounds of the model.                                                    *)
(***************************************************************************)
\* the remote returns at most MaxCursors non-empty cursors, so a fetch gets
\* at most MaxCursors + 1 pages
MaxCursors == 2
\* the remote gives at most MaxFaults answers that are no well-formed 200
\* response
MaxFaults == 2
\* number of inbound JSON-RPC requests the server reads from stdin
MaxRequests == 2
\* non-empty cursors the remote returns during one health-summary request
SummaryCursors == 1
\* faulty answers the remote may give during a health summary whose four
\* fetches may all fail
SummaryFaults == 4
\* faulty answers the remote may give during a health summary whose chains
\* of pages end
ChainFaults == 1
\* pages of a fetch against a remote that returns a cursor with every page
MaxPages == 3

(***************************************************************************)
(* Calendar arithmetic of package time, as far as parseDateRange uses it:  *)
(* instants are seconds since 1970-01-01T00:00:00Z.                        *)
(***************************************************************************)
SecPerDay == 24 * 60 * 60

IsLeap(y) == (y % 4 = 0 /\ y % 100 # 0) \/ y % 400 = 0

DaysIn(y, m) ==
    IF m = 2 THEN (IF IsLeap(y) THEN 29 ELSE 28)
    ELSE IF m \in {4, 6, 9, 11} THEN 30 ELSE 31

\* days since the epoch of the civil date y-m-d; d may run past the month's
\* end, as in time.Date, which normalises the overflow
DaysFromCivil(y, m, d) ==
    LET yy  == IF m <= 2 THEN y - 1 ELSE y
        era == yy \div 400
        yoe == yy - era * 400
        mp  == IF m > 2 THEN m - 3 ELSE m + 9
        doy == (153 * mp + 2) \div 5 + d - 1
        doe == yoe * 365 + yoe \div 4 - yoe \div 100 + doy
    IN  era * 146097 + doe - 719468

\* the civil date <<y, m, d>> of a day number
CivilFromDays(z) ==
    LET zz  == z + 719468
        era == zz \div 146097
        doe == zz - era * 146097
        yoe == (doe - doe \div 1460 + doe \div 36524 - doe \div 146096) \div 365
        doy == doe - (365 * yoe + yoe \div 4 - yoe \div 100)
        mp  == (5 * doy + 2) \div 153
        d   == doy - (153 * mp + 2) \div 5 + 1
        m   == IF mp < 10 THEN mp + 3 ELSE mp - 9
        y   == yoe + era * 400 + (IF m <= 2 THEN 1 ELSE 0)
    IN  <<y, m, d>>

\* A date argument as a client writes it: wf says whether the text has the
\* shape YYYY-MM-DD; y, m, d are the numbers it spells.
DateStr(wf, y, m, d) == [wf |-> wf, y |-> y, m |-> m, d |-> d]

\* time.Parse("2006-01-02", s): an error for text of another shape and for a
\* month or a day out of range, else midnight UTC of the date
TimeParse(s) ==
    IF s.wf /\ s.m \in 1..12 /\ s.d \in 1..DaysIn(s.y, s.m)
    THEN [ok |-> TRUE, t |-> DaysFromCivil(s.y, s.m, s.d) * SecPerDay]
    ELSE [ok |-> FALSE, t |-> 0]

\* t.Format("2006-01-02")
FormatDate(t) == CivilFromDays(t \div SecPerDay)

\* the one element of a singleton set
The(set) == CHOOSE x \in set : TRUE

\* t.AddDate(0, 0, days): the civil date with the day advanced, the time of
\* day kept
AddDays(t, days) ==
    The({DaysFromCivil(c[1], c[2], c[3] + days) * SecPerDay + (t % SecPerDay) :
            c \in {CivilFromDays(t \div SecPerDay)}})

\* what parseDateRange returns
DateRange(ok, err, start, end) == [ok |-> ok, err |-> err, start |-> start, end |-> end]

\* parseDateRange, were the second not taken off the next midnight
parseDateRangeNextDay(startDateStr, endDateStr) ==
    The({IF ~s.ok THEN DateRange(FALSE, "invalid start_date format", 0, 0)
         ELSE IF ~e.ok THEN DateRange(FALSE, "invalid end_date format", 0, 0)
         ELSE DateRange(TRUE, "", s.t,
                        IF FormatDate(s.t) = FormatDate(e.t)
                        THEN AddDays(e.t, 1)
                        ELSE e.t) :
            s \in {TimeParse(startDateStr)}, e \in {TimeParse(endDateStr)}})

\* parseDateRange(startDateStr, endDateStr)
parseDateRange(startDateStr, endDateStr) ==
    The({IF ~s.ok THEN DateRange(FALSE, "invalid start_date format", 0, 0)
         ELSE IF ~e.ok THEN DateRange(FALSE, "invalid end_date format", 0, 0)
         ELSE DateRange(TRUE, "", s.t,
                        IF FormatDate(s.t) = FormatDate(e.t)
                        THEN AddDays(e.t, 1) - 1
                        ELSE e.t) :
            s \in {TimeParse(startDateStr)}, e \in {TimeParse(endDateStr)}})

(***************************************************************************)
(* Values exchanged with the remote API.                                   *)
(***************************************************************************)
Kinds == {"recovery", "sleep", "workout", "cycle"}
Tasks == Kinds \cup {"main"}

\* A response body: a page of records with its next_token (-1 absent, 0 the
\* empty string, i > 0 the cursor that follows page i), a user profile, an
\* error text, or bytes that are no JSON.
Body(t, idx, next) == [t |-> t, idx |-> idx, next |-> next]
NoBody == Body("none", 0, 0)
UserBody == Body("user", 0, 0)
GarbageBody == Body("garbage", 0, 0)
ErrBody(status) == Body("error", status, 0)

\* the records the remote holds on page idx
PageData(idx) == IF idx % 2 = 1 THEN <<2 * idx, 2 * idx - 1>> ELSE <<2 * idx>>

\* statuses the remote answers with besides 200 and 401
ErrorStatuses == {400, 403, 404, 429, 500, 502, 503, 418}

\* an error value: what it is, the operation that wrapped it, and what its
\* text carries of the response
Err(type, cause, category, status, body) ==
    [type |-> type, cause |-> cause, category |-> category,
     status |-> status, body |-> body, src |-> "", wrapped |-> 0]
NoErr == Err("none", "", "", 0, NoBody)

\* fmt.Errorf("failed to get ... data: %w", err)
Wrap(op, e) == [e EXCEPT !.src = op, !.wrapped = @ + 1]

\* what makeRequest returns: (body, nil) or (nil, err)
Ok(body) == [ok |-> TRUE, body |-> body, err |-> NoErr]
Fail(e) == [ok |-> FALSE, body |-> NoBody, err |-> e]

\* handleAPIError(statusCode, body): the error text per status; the makeRequest
\* with the token refresh does not call it
handleAPIError(statusCode, body) ==
    CASE statusCode = 401 -> Err("api_error", "", "unauthorized", 0, NoBody)
      [] statusCode = 403 -> Err("api_error", "", "forbidden", 0, NoBody)
      [] statusCode = 429 -> Err("api_error", "", "rate_limited", 0, NoBody)
      [] statusCode = 400 -> Err("api_error", "", "bad_request", 0, NoBody)
      [] statusCode = 404 -> Err("api_error", "", "not_found", 0, NoBody)
      [] statusCode = 500 -> Err("api_error", "", "server_error", 0, NoBody)
      [] statusCode = 503 -> Err("api_error", "", "server_error", 0, NoBody)
      [] OTHER -> Err("api_error", "", "unknown", statusCode, body)

\* the end of makeRequest: any status but 200 is an error whose text is
\* "API request failed with status %d: %s"
StatusCheck(statusCode, body) ==
    IF statusCode # 200
    THEN Fail(Err("api_status", "", "", statusCode, body))
    ELSE Ok(body)

(***************************************************************************)
(* State.                                                                  *)
(***************************************************************************)
VARIABLES
    w,            \* the WhoopClient: apiKey, refreshToken, clientID, clientSecret
    envFile,      \* the tokens last written to .env
    acquired,     \* slots the rate limiter granted during the current request
    sent,         \* outbound HTTP requests sent during the current request
    faults,       \* faulty answers the remote may still give
    cursors,      \* non-empty cursors the remote may still return
    errStatuses,  \* the error statuses the remote answers with
    mr,           \* per task: the record of its latest makeRequest call
    fx,           \* per record kind: the GETs of its fetch in the current request
    newToken,     \* per task: the token refreshAccessToken returned
    pc,           \* per task: where it stands
    cur,          \* per task: the operation it runs (user or a record kind)
    nextToken,    \* per task: the cursor of the fetch loop
    acc,          \* per task: the records appended so far
    fres,         \* per record kind: the outcome of its fetch in the current request
    todo,         \* the operations the handler still has to run itself
    errCh,        \* the error channel of executeHealthSummaryTool
    sendLog,      \* every error sent on errCh, in the order of the sends
    batches,      \* the result variables: one batch per record kind
    reply,        \* the JSON-RPC response to the current request
    analyzed,     \* AnalyzeHealthSummary ran in the current request
    initialized,  \* MCPServer.initialized
    call,         \* the current request and its arguments
    reqs,         \* requests read so far
    pdIn,         \* arguments of parseDateRange
    pdOut,        \* what parseDateRange returned
    limiter,      \* the rate limiter: its tokens, in whole token intervals
    lw,           \* per goroutine: where it stands in rateLimiter.Wait
    recoveries,   \* the recovery batch handed to the health analyzer
    sleepData,    \* the sleep batch handed to the health analyzer
    workouts,     \* the workout batch handed to the health analyzer
    cycles,       \* the cycle batch handed to the health analyzer
    summary       \* what the health analyzer returned

clientVars == <<w, envFile, acquired, sent, faults, cursors, errStatuses, mr, fx, newToken>>
taskVars == <<pc, cur, nextToken, acc, fres>>
serverVars == <<todo, errCh, sendLog, batches, reply, analyzed, initialized, call, reqs>>
dateVars == <<pdIn, pdOut>>
limiterVars == <<limiter, lw>>
batchVars == <<recoveries, sleepData, workouts, cycles>>
analysisVars == <<batchVars, summary>>
unitVars == <<dateVars, limiterVars, analysisVars>>
vars == <<clientVars, taskVars, serverVars, unitVars>>

Url(op, cursor) == [op |-> op, cursor |-> cursor]
NoUrl == Url("", 0)

\* a makeRequest call that has not sent anything yet; first and second are
\* the statuses of the first attempt and of the retry (0 none, -1 no response)
NoCall ==
    [first |-> 0, second |-> 0, refreshes |-> 0, retries |-> 0,
     url1 |-> NoUrl, url2 |-> NoUrl, body2 |-> NoBody,
     done |-> FALSE, res |-> Ok(NoBody)]

NoFetch == [gets |-> 0, retries |-> 0, served |-> <<>>]
NoFres == [state |-> "none", data |-> <<>>, err |-> NoErr]
EmptyBatches == [k \in Kinds |-> <<>>]
NoReply == [kind |-> "none", code |-> 0, err |-> NoErr, report |-> EmptyBatches]

\* sendResponse / sendError
Result(report) == [kind |-> "result", code |-> 0, err |-> NoErr, report |-> report]
Error(code, e) == [kind |-> "error", code |-> code, err |-> e, report |-> EmptyBatches]

(***************************************************************************)
(* Requests and their arguments.                                           *)
(***************************************************************************)
D1 == DateStr(TRUE, 2024, 2, 29)
D2 == DateStr(TRUE, 2024, 3, 1)
BadShape == DateStr(FALSE, 0, 0, 0)
BadDay == DateStr(TRUE, 2023, 2, 29)
DateArgs == {<<BadShape, D1>>, <<D1, BadDay>>, <<D2, D1>>, <<D1, D1>>}
Metrics == {"recovery", "sleep", "strain", "hrv"}
DaysArgs == {0, 7, 100}
\* time.Now() of a trend request
Now == DaysFromCivil(2024, 3, 1) * SecPerDay + 3600

DateTools == {"get_health_summary", "analyze_stress_indicators",
              "analyze_sleep_patterns", "analyze_activity_patterns"}

Call(method, tool, start, end, metric, days, userGiven) ==
    [method |-> method, tool |-> tool, start |-> start, end |-> end,
     metric |-> metric, days |-> days, userGiven |-> userGiven,
     win |-> [start |-> 0, end |-> 0]]
NoCallYet == Call("", "", BadShape, BadShape, "", 0, FALSE)
InitializeCall == Call("initialize", "", BadShape, BadShape, "", 0, FALSE)

ToolCalls ==
    {Call("tools/call", "get_health_summary", p[1], p[2], "", 0, u) :
        p \in DateArgs, u \in BOOLEAN}
    \cup {Call("tools/call", tl, p[1], p[2], "", 0, FALSE) :
        tl \in DateTools \ {"get_health_summary"}, p \in DateArgs}
    \cup {Call("tools/call", "analyze_health_trends", BadShape, BadShape, m, d, FALSE) :
        m \in Metrics, d \in DaysArgs}

\* what a tool handler decides before its first fetch: reject the input, or
\* run ops itself (and, for the health summary, start the four tasks after)
Reject(msg) == [ok |-> FALSE, err |-> msg, win |-> [start |-> 0, end |-> 0], ops |-> <<>>]
Plan(start, end, ops) == [ok |-> TRUE, err |-> "", win |-> [start |-> start, end |-> end], ops |-> ops]

\* executeHealthSummaryTool, up to the first outbound call
executeHealthSummaryTool(c) ==
    The({IF ~r.ok THEN Reject(r.err)
         ELSE IF r.end < r.start THEN Reject("end_date must be after start_date")
         ELSE Plan(r.start, r.end, IF c.userGiven THEN <<>> ELSE <<"user">>) :
            r \in {parseDateRange(c.start, c.end)}})

\* executeStressAnalysisTool, executeSleepAnalysisTool and
\* executeActivityAnalysisTool, up to the first outbound call
executeDateTool(c, ops) ==
    The({IF ~r.ok THEN Reject(r.err) ELSE Plan(r.start, r.end, ops) :
            r \in {parseDateRange(c.start, c.end)}})

\* executeTrendAnalysisTool, up to the first outbound call
executeTrendAnalysisTool(c) ==
    The({CASE c.metric = "recovery" -> Plan(startDate, Now, <<"recovery">>)
           [] c.metric = "sleep" -> Plan(startDate, Now, <<"sleep">>)
           [] c.metric = "strain" -> Plan(startDate, Now, <<"cycle">>)
           [] OTHER -> Reject("unsupported metric") :
            startDate \in {AddDays(Now, 0 - (IF c.days = 0 THEN 14 ELSE c.days))}})

\* executeTool
executeTool(c) ==
    CASE c.tool = "get_health_summary" -> executeHealthSummaryTool(c)
      [] c.tool = "analyze_stress_indicators" -> executeDateTool(c, <<"recovery", "sleep">>)
      [] c.tool = "analyze_sleep_patterns" -> executeDateTool(c, <<"sleep">>)
      [] c.tool = "analyze_activity_patterns" -> executeDateTool(c, <<"workout", "cycle">>)
      [] c.tool = "analyze_health_trends" -> executeTrendAnalysisTool(c)
      [] OTHER -> Reject("unknown tool")

(***************************************************************************)
(* The remote API and the client's pure steps.                             *)
(***************************************************************************)
Response(tr, status, body) == [tr |-> tr, status |-> status, body |-> body]

\* the count of cursors left of a remote that returns a non-empty cursor with
\* every page
Endless == -1

\* the cursors the remote may return with page idx when it may still return
\* left non-empty ones
NextCursors(idx, left) ==
    IF left = Endless THEN {idx}
    ELSE {-1, 0} \cup (IF left > 0 THEN {idx} ELSE {})

\* doRequest(fullURL): what a GET for op with the given cursor may come back
\* with: no response at all, an error status, or 200 with a body
doRequest(op, cursor, left, statuses) ==
    {Response(TRUE, -1, NoBody)}
    \cup {Response(FALSE, st, ErrBody(st)) : st \in statuses \cup {401}}
    \cup {Response(FALSE, 200, GarbageBody)}
    \cup (IF op = "user"
          THEN {Response(FALSE, 200, UserBody)}
          ELSE {Response(FALSE, 200, Body("page", cursor + 1, nx)) :
                    nx \in NextCursors(cursor + 1, left)})

IsFault(r) == r.tr \/ r.status # 200 \/ r.body.t = "garbage"

\* canRefreshToken
canRefreshToken(c) == c.refreshToken # 0 /\ c.clientID # "" /\ c.clientSecret # ""

\* what the token endpoint may answer: no response, a status other than 200,
\* a body that does not parse, or a new access token with or without a new
\* refresh token (0: none)
RefreshOutcome(ok, cause, access, refresh) ==
    [ok |-> ok, cause |-> cause, access |-> access, refresh |-> refresh]
RefreshOutcomes ==
    {RefreshOutcome(FALSE, c, 0, 0) : c \in {"transport", "status", "parse"}}
    \cup {RefreshOutcome(TRUE, "", 2, r) : r \in {0, 2}}

\* updateEnvFile(accessToken, refreshToken): os.WriteFile may fail
updateEnvFile(env, accessToken, refreshTok, writeOK) ==
    IF writeOK THEN [apiKey |-> accessToken, refreshToken |-> refreshTok] ELSE env

\* refreshAccessToken, were the refresh token dropped before the answer is
\* looked at
refreshAccessTokenDropping(c, env, o, writeOK) ==
    LET c1 == [c EXCEPT !.refreshToken = o.refresh]
    IN  IF ~o.ok
        THEN [ok |-> FALSE, w |-> c1, env |-> env, token |-> 0,
              err |-> Err("refresh_failed", o.cause, "", 0, NoBody)]
        ELSE [ok |-> TRUE, w |-> c1,
              env |-> updateEnvFile(env, o.access, c1.refreshToken, writeOK),
              token |-> o.access, err |-> NoErr]

\* refreshAccessToken, were a failed write of .env an error of the refresh
refreshAccessTokenStrict(c, env, o, writeOK) ==
    IF ~o.ok
    THEN [ok |-> FALSE, w |-> c, env |-> env, token |-> 0,
          err |-> Err("refresh_failed", o.cause, "", 0, NoBody)]
    ELSE IF ~writeOK
    THEN [ok |-> FALSE, w |-> c, env |-> env, token |-> 0,
          err |-> Err("refresh_failed", "write", "", 0, NoBody)]
    ELSE LET c2 == IF o.refresh # 0 THEN [c EXCEPT !.refreshToken = o.refresh] ELSE c
         IN  [ok |-> TRUE, w |-> c2,
              env |-> updateEnvFile(env, o.access, c2.refreshToken, writeOK),
              token |-> o.access, err |-> NoErr]

\* refreshAccessToken, from the response on: the client and the .env file it
\* leaves, and the token or error it returns
refreshAccessToken(c, env, o, writeOK) ==
    IF ~o.ok
    THEN [ok |-> FALSE, w |-> c, env |-> env, token |-> 0,
          err |-> Err("refresh_failed", o.cause, "", 0, NoBody)]
    ELSE LET c2 == IF o.refresh # 0 THEN [c EXCEPT !.refreshToken = o.refresh] ELSE c
         IN  [ok |-> TRUE, w |-> c2,
              env |-> updateEnvFile(env, o.access, c2.refreshToken, writeOK),
              token |-> o.access, err |-> NoErr]

\* GetUser, after makeRequest returned
GetUser(res) ==
    IF ~res.ok THEN [ok |-> FALSE, err |-> Wrap("user", res.err)]
    ELSE IF res.body.t # "user"
    THEN [ok |-> FALSE, err |-> Wrap("user", Err("parse", "", "", 0, NoBody))]
    ELSE [ok |-> TRUE, err |-> NoErr]

\* the round of the fetch loop, were each page put in front of the earlier ones
FetchIterInFront(op, all, res) ==
    IF ~res.ok
    THEN [state |-> "fail", acc |-> <<>>, next |-> 0, err |-> Wrap(op, res.err)]
    ELSE IF res.body.t # "page"
    THEN [state |-> "fail", acc |-> <<>>, next |-> 0,
          err |-> Wrap(op, Err("parse", "", "", 0, NoBody))]
    ELSE IF res.body.next <= 0
    THEN [state |-> "done", acc |-> PageData(res.body.idx) \o all, next |-> 0, err |-> NoErr]
    ELSE [state |-> "more", acc |-> PageData(res.body.idx) \o all,
          next |-> res.body.next, err |-> NoErr]

\* a round of the fetch loop, were the cursor of the page not taken over
FetchIterNoCursor(op, all, res) ==
    IF ~res.ok
    THEN [state |-> "fail", acc |-> <<>>, next |-> 0, err |-> Wrap(op, res.err)]
    ELSE IF res.body.t # "page"
    THEN [state |-> "fail", acc |-> <<>>, next |-> 0,
          err |-> Wrap(op, Err("parse", "", "", 0, NoBody))]
    ELSE IF res.body.next <= 0
    THEN [state |-> "done", acc |-> all \o PageData(res.body.idx), next |-> 0, err |-> NoErr]
    ELSE [state |-> "more", acc |-> all \o PageData(res.body.idx),
          next |-> 0, err |-> NoErr]

\* a round of the fetch loop, were a failing page to return the records of
\* the pages before it
FetchIterPartial(op, all, res) ==
    IF ~res.ok
    THEN [state |-> "fail", acc |-> all, next |-> 0, err |-> Wrap(op, res.err)]
    ELSE IF res.body.t # "page"
    THEN [state |-> "fail", acc |-> all, next |-> 0,
          err |-> Wrap(op, Err("parse", "", "", 0, NoBody))]
    ELSE IF res.body.next <= 0
    THEN [state |-> "done", acc |-> all \o PageData(res.body.idx), next |-> 0, err |-> NoErr]
    ELSE [state |-> "more", acc |-> all \o PageData(res.body.idx),
          next |-> res.body.next, err |-> NoErr]

\* one round of the loop, were it to stop at the second page whatever cursor
\* came with it
FetchIterCapped(op, all, res) ==
    IF ~res.ok
    THEN [state |-> "fail", acc |-> <<>>, next |-> 0, err |-> Wrap(op, res.err)]
    ELSE IF res.body.t # "page"
    THEN [state |-> "fail", acc |-> <<>>, next |-> 0,
          err |-> Wrap(op, Err("parse", "", "", 0, NoBody))]
    ELSE IF res.body.next <= 0 \/ res.body.idx >= 2
    THEN [state |-> "done", acc |-> all \o PageData(res.body.idx), next |-> 0, err |-> NoErr]
    ELSE [state |-> "more", acc |-> all \o PageData(res.body.idx),
          next |-> res.body.next, err |-> NoErr]

\* one round of the loop of GetRecoveryData / GetSleepData / GetWorkoutData /
\* GetCycleData, after makeRequest returned: fail, go on with the next cursor,
\* or return the records
FetchIter(op, all, res) ==
    IF ~res.ok
    THEN [state |-> "fail", acc |-> <<>>, next |-> 0, err |-> Wrap(op, res.err)]
    ELSE IF res.body.t # "page"
    THEN [state |-> "fail", acc |-> <<>>, next |-> 0,
          err |-> Wrap(op, Err("parse", "", "", 0, NoBody))]
    ELSE IF res.body.next <= 0
    THEN [state |-> "done", acc |-> all \o PageData(res.body.idx), next |-> 0, err |-> NoErr]
    ELSE [state |-> "more", acc |-> all \o PageData(res.body.idx),
          next |-> res.body.next, err |-> NoErr]

(***************************************************************************)
(* What the caller of makeRequest does with its result.                    *)
(***************************************************************************)
\* the caller-side state as one value
S ==
    [pc |-> pc, cur |-> cur, nextToken |-> nextToken, acc |-> acc, fres |-> fres,
     todo |-> todo, errCh |-> errCh, sendLog |-> sendLog, batches |-> batches,
     reply |-> reply, analyzed |-> analyzed, initialized |-> initialized]

Apply(b) ==
    /\ pc' = b.pc
    /\ cur' = b.cur
    /\ nextToken' = b.nextToken
    /\ acc' = b.acc
    /\ fres' = b.fres
    /\ todo' = b.todo
    /\ errCh' = b.errCh
    /\ sendLog' = b.sendLog
    /\ batches' = b.batches
    /\ reply' = b.reply
    /\ analyzed' = b.analyzed
    /\ initialized' = b.initialized

\* a fetch is entered: params are set, nextToken is empty, nothing is appended
Enter(b, t, op) ==
    [b EXCEPT !.cur[t] = op, !.pc[t] = "get", !.nextToken[t] = 0, !.acc[t] = <<>>]

\* the four "go func()" statements of executeHealthSummaryTool, then wg.Wait
Spawn(b) ==
    LET b1 == Enter(b, "recovery", "recovery")
        b2 == Enter(b1, "sleep", "sleep")
        b3 == Enter(b2, "workout", "workout")
        b4 == Enter(b3, "cycle", "cycle")
    IN  [b4 EXCEPT !.pc["main"] = "join"]

\* a handler returns an error, were a failure to reset the initialized flag
MainFailReset(b, e) ==
    [b EXCEPT !.reply = Error(-32603, e), !.pc["main"] = "idle", !.initialized = FALSE]

\* a handler returns an error: sendError(-32603)
MainFail(b, e) == [b EXCEPT !.reply = Error(-32603, e), !.pc["main"] = "idle"]

\* an operation the handler ran itself succeeded: run the next one, or go on
\* with what follows the last one
MainNext(b, c) ==
    The({IF b1.todo # <<>>
         THEN [Enter(b1, "main", Head(b1.todo)) EXCEPT !.todo = Tail(b1.todo)]
         ELSE IF c.method = "initialize"
         THEN [b1 EXCEPT !.initialized = TRUE, !.reply = Result(EmptyBatches),
                         !.pc["main"] = "idle"]
         ELSE IF c.tool = "get_health_summary"
         THEN Spawn(b1)
         ELSE [b1 EXCEPT !.reply = Result(b1.batches), !.pc["main"] = "idle"] :
            b1 \in {b}})

\* the state after the fetch round (or GetUser) of task t came to f
After(t, f) ==
    IF cur[t] = "user"
    THEN IF f.ok THEN MainNext(S, call) ELSE MainFail(S, Wrap("user", f.err))
    ELSE IF f.state = "more"
    THEN [S EXCEPT !.nextToken[t] = f.next, !.acc[t] = f.acc, !.pc[t] = "get"]
    ELSE The({IF t = "main"
              THEN IF f.state = "fail"
                   THEN MainFail(b, Wrap(cur[t], f.err))
                   ELSE MainNext([b EXCEPT !.batches[cur[t]] = f.acc], call)
              ELSE IF f.state = "fail"
                   THEN [b EXCEPT !.pc[t] = "send"]
                   ELSE [b EXCEPT !.batches[t] = f.acc, !.pc[t] = "done"] :
                 b \in {[S EXCEPT !.acc[t] = <<>>, !.nextToken[t] = 0,
                                  !.fres[cur[t]] = [state |-> f.state, data |-> f.acc,
                                                    err |-> f.err]]}})

\* the result as the call's record keeps it: the body without its cursor
Kept(res) == [res EXCEPT !.body.next = 0]

\* makeRequest returns res: the call's record is closed and the caller, GetUser
\* or a round of a fetch loop, goes on
Return(t, m, res) ==
    /\ mr' = [mr EXCEPT ![t] = [m EXCEPT !.done = TRUE, !.res = Kept(res)]]
    /\ \E f \in {IF cur[t] = "user" THEN GetUser(res)
                 ELSE FetchIter(cur[t], acc[t], res)} :
          \E b \in {After(t, f)} : Apply(b)

\* makeRequest goes on to its next step
Stay(t, m, p) ==
    /\ mr' = [mr EXCEPT ![t] = m]
    /\ pc' = [pc EXCEPT ![t] = p]
    /\ UNCHANGED <<cur, nextToken, acc, fres, todo, errCh, sendLog, batches,
                   reply, analyzed, initialized>>

(***************************************************************************)
(* Initial state: NewMCPServer.                                            *)
(***************************************************************************)
\* the credentials NewWhoopClient reads from the environment: all the
\* refresh material, no refresh token, or no client secret
Clients ==
    {[apiKey |-> 1, refreshToken |-> 1, clientID |-> "id", clientSecret |-> "secret"],
     [apiKey |-> 1, refreshToken |-> 0, clientID |-> "id", clientSecret |-> "secret"],
     [apiKey |-> 1, refreshToken |-> 1, clientID |-> "id", clientSecret |-> ""]}

\* capacity of errCh
ErrChCap == 4

\* the handler-local state before a request
Fresh ==
    [pc |-> [t \in Tasks |-> IF t = "main" THEN "idle" ELSE "off"],
     cur |-> [t \in Tasks |-> t],
     nextToken |-> [t \in Tasks |-> 0],
     acc |-> [t \in Tasks |-> <<>>],
     fres |-> [k \in Kinds |-> NoFres],
     todo |-> <<>>, errCh |-> <<>>, sendLog |-> <<>>, batches |-> EmptyBatches,
     reply |-> NoReply, analyzed |-> FALSE, initialized |-> initialized]

\* the state NewMCPServer leaves, but for the remote and the initialized flag
Constructed ==
    /\ w \in Clients
    /\ envFile = [apiKey |-> 0, refreshToken |-> 0]
    /\ acquired = 0
    /\ sent = 0
    /\ faults = MaxFaults
    /\ mr = [t \in Tasks |-> NoCall]
    /\ fx = [k \in Kinds |-> NoFetch]
    /\ newToken = [t \in Tasks |-> 0]
    /\ pc = [t \in Tasks |-> IF t = "main" THEN "idle" ELSE "off"]
    /\ cur = [t \in Tasks |-> t]
    /\ nextToken = [t \in Tasks |-> 0]
    /\ acc = [t \in Tasks |-> <<>>]
    /\ fres = [k \in Kinds |-> NoFres]
    /\ todo = <<>>
    /\ errCh = <<>>
    /\ sendLog = <<>>
    /\ batches = EmptyBatches
    /\ reply = NoReply
    /\ analyzed = FALSE
    /\ call = NoCallYet

(***************************************************************************)
(* The rate limiter of NewWhoopClient: a token bucket of Burst tokens that *)
(* gains one token per interval of time.Minute/100.  Time is counted in    *)
(* these intervals.                                                        *)
(***************************************************************************)
Burst == 10

\* rate.NewLimiter: the bucket starts full
NewLimiter == [tokens |-> Burst]

\* a context with a deadline that leaves no time to wait
ContextWithDeadline == [done |-> FALSE, hasDeadline |-> TRUE, waitLimit |-> 0]

\* context.Background(): never done, no deadline
Background == [done |-> FALSE, hasDeadline |-> FALSE, waitLimit |-> 0]

\* Limiter.reserveN: take n tokens, in debt when the bucket is empty; the
\* debt is the time to wait; refused when the wait exceeds the limit
reserveN(lim, n, ctx) ==
    The({ [ok     |-> n <= Burst /\ (ctx.hasDeadline => wait <= ctx.waitLimit),
           tokens |-> lim.tokens - n,
           delay  |-> wait]
          : wait \in {IF lim.tokens - n < 0 THEN n - lim.tokens ELSE 0} })

\* Limiter.Wait: what the call does to the limiter and what it returns;
\* a refused reservation leaves the limiter as it was
Wait(lim, ctx) ==
    IF 1 > Burst THEN [lim |-> lim, err |-> "exceeds limiter's burst", delay |-> 0]
    ELSE IF ctx.done THEN [lim |-> lim, err |-> "context done", delay |-> 0]
    ELSE The({ IF r.ok
               THEN [lim |-> [tokens |-> r.tokens], err |-> "", delay |-> r.delay]
               ELSE [lim |-> lim, err |-> "would exceed context deadline", delay |-> 0]
               : r \in {reserveN(lim, 1, ctx)} })

\* a goroutine outside rateLimiter.Wait
Outside == [st |-> "out", delay |-> 0]

LimiterFresh ==
    /\ limiter = NewLimiter
    /\ lw = [t \in Kinds |-> Outside]

(***************************************************************************)
(* The health analyzer.  A float64 is modelled as the exact fraction       *)
(* [n, d] in lowest terms with d > 0: the arithmetic is the code's, taken  *)
(* without rounding.                                                       *)
(***************************************************************************)
RECURSIVE GCD(_, _)
GCD(a, b) == IF b = 0 THEN a ELSE GCD(b, a % b)

Rat(n, d) ==
    The({ The({ [n |-> x \div g, d |-> y \div g]
                : g \in {GCD(IF x < 0 THEN 0 - x ELSE x, y)} })
          : x \in {n}, y \in {d} })

\* float64(i)
Float(i) == [n |-> i, d |-> 1]
Zero == Float(0)
One == Float(1)

Plus(a, b) == The({Rat(x.n * y.d + y.n * x.d, x.d * y.d) : x \in {a}, y \in {b}})
Minus(a, b) == The({Rat(x.n * y.d - y.n * x.d, x.d * y.d) : x \in {a}, y \in {b}})
Times(a, b) == The({Rat(x.n * y.n, x.d * y.d) : x \in {a}, y \in {b}})
\* a / b for b > 0
Over(a, b) == The({Rat(x.n * y.d, x.d * y.n) : x \in {a}, y \in {b}})
Less(a, b) == The({x.n * y.d < y.n * x.d : x \in {a}, y \in {b}})

RECURSIVE Sum(_)
Sum(values) ==
    IF values = <<>> THEN Zero ELSE Plus(Head(values), Sum(Tail(values)))

\* calculateMean: 0 for no values
calculateMean(values) ==
    IF Len(values) = 0 THEN Zero ELSE Over(Sum(values), Float(Len(values)))

RECURSIVE SumInt(_)
SumInt(values) ==
    IF values = <<>> THEN 0 ELSE Head(values) + SumInt(Tail(values))

\* calculateMeanInt: integer division; 0 for no values
calculateMeanInt(values) ==
    IF Len(values) = 0 THEN 0 ELSE SumInt(values) \div Len(values)

\* the square of calculateStdDev: 0 for fewer than two values, else the sum
\* of the squared differences from the mean over len - 1
Variance(values) ==
    IF Len(values) <= 1 THEN Zero
    ELSE The({ Over(Sum([i \in 1..Len(values) |->
                            The({Times(diff, diff) : diff \in {Minus(values[i], mean)}})]),
                    Float(Len(values) - 1))
               : mean \in {calculateMean(values)} })

\* consistency := 1.0 - calculateStdDev(values)/scale, set to 0 when
\* negative: 1 and 0 where the root is 0 or at least the scale, else the
\* value 1 - root(q) kept as q
Consistency(values, scale) ==
    The({ IF v = Zero THEN One
          ELSE IF ~Less(v, Float(scale * scale)) THEN Zero
          ELSE [oneMinusRootOf |-> Over(v, Float(scale * scale))]
          : v \in {Variance(values)} })

\* s[from..to] of a slice, as a sequence
Slice(s, from, to) == [i \in 1..(to - from + 1) |-> s[from + i - 1]]

Range(s) == {s[i] : i \in 1..Len(s)}

\* a WhoopRecovery: Score.RecoveryScore, Score.RestingHeartRate and
\* Score.HRVRmssd, and CreatedAt in days
Recovery(at, score, rhr, hrv) ==
    [CreatedAt |-> at, RecoveryScore |-> score, RestingHeartRate |-> rhr, HRVRmssd |-> hrv]

\* a WhoopSleep: CreatedAt in days, the times of Score.StageSummary and
\* Score.SleepNeeded in milliseconds (baseline and debt need added up)
Sleep(at, inBed, awake, eff, needed, disturbances) ==
    [CreatedAt |-> at, TotalInBedTimeMilli |-> inBed, TotalAwakeTimeMilli |-> awake,
     SleepEfficiencyPercentage |-> eff, NeededMilli |-> needed,
     DisturbanceCount |-> disturbances]

\* a WhoopWorkout or a WhoopCycle: Start in days and Score.Strain
Activity(start, strain) == [Start |-> start, Strain |-> strain]

MilliPerHour == 1000 * 60 * 60

\* sort.Slice(recoveries, CreatedAt.Before) on records of distinct creation
\* times: the record at place i has i - 1 records before it
sortByCreatedAt(recs) ==
    [i \in 1..Len(recs) |->
        The({r \in Range(recs) :
                 Cardinality({q \in Range(recs) : q.CreatedAt < r.CreatedAt}) = i - 1})]

\* RecoveryTrend{Trend: "no_data"}: the other fields are zero values
NoRecoveryData ==
    [AverageScore |-> Zero, Trend |-> "no_data", WeeklyChange |-> Zero,
     ConsistencyScore |-> Zero, LastSevenDays |-> <<>>]

\* the change between the halves of a sequence of values: none for fewer
\* than seven values, else the second half's mean less the first half's
SplitHalf(values) ==
    IF Len(values) >= 7
    THEN Minus(calculateMean(Slice(values, Len(values) \div 2 + 1, Len(values))),
               calculateMean(Slice(values, 1, Len(values) \div 2)))
    ELSE Zero

\* the trend with the threshold itself counted as a change
TrendOfFrom(values, change, threshold) ==
    IF Len(values) >= 7 /\ ~Less(change, threshold) THEN "improving"
    ELSE IF Len(values) >= 7 /\ ~Less(Minus(Zero, threshold), change) THEN "declining"
    ELSE "stable"

\* improving above the threshold, declining below its negative; stable for
\* fewer than seven values
TrendOf(values, change, threshold) ==
    IF Len(values) >= 7 /\ Less(threshold, change) THEN "improving"
    ELSE IF Len(values) >= 7 /\ Less(change, Minus(Zero, threshold)) THEN "declining"
    ELSE "stable"

\* analyzeRecoveryTrend past its check for an empty batch
recoveryTrendOf(sorted) ==
    The({ The({ [AverageScore     |-> calculateMean(scores),
                 Trend            |-> TrendOf(scores, weeklyChange, Float(5)),
                 WeeklyChange     |-> weeklyChange,
                 ConsistencyScore |-> Consistency(scores, 100),
                 LastSevenDays    |->
                     Slice(scores, IF Len(scores) > 7 THEN Len(scores) - 6 ELSE 1,
                           Len(scores))]
                : weeklyChange \in {SplitHalf(scores)} })
          : scores \in {[i \in 1..Len(sorted) |-> Float(sorted[i].RecoveryScore)]} })

\* analyzeRecoveryTrend without its check for an empty batch
analyzeRecoveryTrendUnguarded(sorted) == recoveryTrendOf(sorted)

\* analyzeRecoveryTrend on the batch as sort.Slice left it
analyzeRecoveryTrend(sorted) ==
    IF Len(sorted) = 0 THEN NoRecoveryData ELSE recoveryTrendOf(sorted)

\* SleepAnalysis{SleepQualityTrend: "no_data"}: the other fields are zero
\* values
NoSleepData ==
    [AverageHours |-> Zero, AverageEfficiency |-> Zero, AverageDebt |-> Zero,
     ConsistencyScore |-> Zero, DisturbanceFrequency |-> Zero, OptimalBedtime |-> "",
     SleepQualityTrend |-> "no_data"]

\* the sleep duration of a night in hours: in-bed time less awake time
sleepDuration(sleep) ==
    Rat(sleep.TotalInBedTimeMilli - sleep.TotalAwakeTimeMilli, MilliPerHour)

\* analyzeSleepPatterns
analyzeSleepPatterns(data) ==
    IF Len(data) = 0 THEN NoSleepData
    ELSE The({ [AverageHours         |-> calculateMean(totalSleepHours),
                AverageEfficiency    |-> calculateMean(efficiencies),
                AverageDebt          |->
                    calculateMean([i \in 1..Len(data) |->
                        Minus(Rat(data[i].NeededMilli, MilliPerHour), totalSleepHours[i])]),
                ConsistencyScore     |-> Consistency(totalSleepHours, 8),
                DisturbanceFrequency |->
                    Float(calculateMeanInt([i \in 1..Len(data) |-> data[i].DisturbanceCount])),
                OptimalBedtime       |-> "22:00",
                SleepQualityTrend    |->
                    TrendOf(efficiencies, SplitHalf(efficiencies), Rat(1, 20))]
               : totalSleepHours \in {[i \in 1..Len(data) |-> sleepDuration(data[i])]},
                 efficiencies \in
                     {[i \in 1..Len(data) |-> Rat(data[i].SleepEfficiencyPercentage, 100)]} })

\* StressIndicators{StressLevel: "unknown"}: the other fields are zero values
NoStressData ==
    [ElevatedHRVDays |-> 0, HighRestingHRDays |-> 0, PoorRecoveryStreak |-> 0,
     StressLevel |-> "unknown", PhysiologicalStress |-> Zero]

\* the days whose HRV is more than 20% above the mean of the days before
elevatedHRVDays(recs) ==
    Cardinality({i \in 2..Len(recs) :
        Less(Times(calculateMean([j \in 1..(i - 1) |-> Float(recs[j].HRVRmssd)]), Rat(12, 10)),
             Float(recs[i].HRVRmssd))})

\* the days whose resting heart rate is more than 10 above the mean of the
\* days before
highRestingHRDays(recs) ==
    Cardinality({i \in 2..Len(recs) :
        Less(Plus(calculateMean([j \in 1..(i - 1) |-> Float(recs[j].RestingHeartRate)]),
                  Float(10)),
             Float(recs[i].RestingHeartRate))})

\* the longest run of consecutive records with a recovery score below 33
poorRecoveryStreak(recs) ==
    The({ IF runs = {} THEN 0 ELSE CHOOSE k \in runs : \A m \in runs : m <= k
          : runs \in {{k \in 1..Len(recs) :
                          \E i \in 1..(Len(recs) - k + 1) :
                              \A j \in i..(i + k - 1) : recs[j].RecoveryScore < 33}} })

\* the stress level of a stress score, with boundaries at 25, 50 and 75
stressLevelQuartiles(stressFactors) ==
    IF Less(Float(75), stressFactors) THEN "critical"
    ELSE IF Less(Float(50), stressFactors) THEN "high"
    ELSE IF Less(Float(25), stressFactors) THEN "moderate"
    ELSE "low"

\* the stress level of a stress score, with the boundaries in the upper class
stressLevelFrom(stressFactors) ==
    IF ~Less(stressFactors, Float(70)) THEN "critical"
    ELSE IF ~Less(stressFactors, Float(50)) THEN "high"
    ELSE IF ~Less(stressFactors, Float(30)) THEN "moderate"
    ELSE "low"

\* the stress level of a stress score
stressLevel(stressFactors) ==
    IF Less(Float(70), stressFactors) THEN "critical"
    ELSE IF Less(Float(50), stressFactors) THEN "high"
    ELSE IF Less(Float(30), stressFactors) THEN "moderate"
    ELSE "low"

\* the physiological stress score: 30 for the share of elevated HRV days,
\* 25 for the share of high resting heart rate days, 25 for each seven days
\* of the poor recovery streak, 20 for a mean recovery of 0 down to none at
\* a mean of 50
stressFactors(n, elevated, highRHR, streak, avgRecovery) ==
    Plus(Plus(Plus(Times(Rat(elevated, n), Float(30)),
                   Times(Rat(highRHR, n), Float(25))),
              Times(Rat(streak, 7), Float(25))),
         IF Less(avgRecovery, Float(50))
         THEN The({Times(Over(Minus(Float(50), avg), Float(50)), Float(20))
                      : avg \in {avgRecovery}})
         ELSE Zero)

\* analyzeStressIndicators, on the batch in the order it is handed over
analyzeStressIndicators(recs) ==
    IF Len(recs) = 0 THEN NoStressData
    ELSE The({ [ElevatedHRVDays     |-> e,
                HighRestingHRDays   |-> h,
                PoorRecoveryStreak  |-> streak,
                StressLevel         |-> stressLevel(score),
                PhysiologicalStress |-> score]
               : <<e, h, streak, score>> \in
                   { The({ <<e, h, streak,
                             stressFactors(Len(recs), e, h, streak,
                                 calculateMean([i \in 1..Len(recs) |->
                                     Float(recs[i].RecoveryScore)]))>>
                           : e \in {elevatedHRVDays(recs)},
                             h \in {highRestingHRDays(recs)},
                             streak \in {poorRecoveryStreak(recs)} }) } })


\* ActivityPatterns{IntensityBalance: "unknown", OvertrainingRisk: "unknown"}
NoActivityData ==
    [WeeklyWorkouts |-> 0, AverageStrain |-> Zero, WorkoutConsistency |-> Zero,
     OvertrainingRisk |-> "unknown", ActiveRecoveryDays |-> 0,
     IntensityBalance |-> "unknown"]

\* the workouts of a week: the count, scaled to seven days when the first
\* and the last workout are days apart
weeklyWorkouts(ws) ==
    IF Len(ws) > 0 /\ ws[Len(ws)].Start - ws[1].Start > 0
    THEN (Len(ws) * 7) \div (ws[Len(ws)].Start - ws[1].Start)
    ELSE Len(ws)

\* analyzeActivityPatterns
analyzeActivityPatterns(ws, cs) ==
    IF Len(ws) = 0 /\ Len(cs) = 0 THEN NoActivityData
    ELSE The({ [WeeklyWorkouts     |-> weekly,
                AverageStrain      |-> avgStrain,
                WorkoutConsistency |->
                    IF Len(ws) > 1
                    THEN Consistency([i \in 1..(Len(ws) - 1) |->
                                         Float(ws[i + 1].Start - ws[i].Start)], 7)
                    ELSE Zero,
                OvertrainingRisk   |->
                    IF Less(Float(18), avgStrain) /\ weekly > 6 THEN "high"
                    ELSE IF Less(Float(15), avgStrain) /\ weekly > 5 THEN "moderate"
                    ELSE "low",
                ActiveRecoveryDays |->
                    Cardinality({i \in 1..Len(strains) : strains[i] > 0 /\ strains[i] < 10}),
                IntensityBalance   |->
                    IF Less(Rat(1, 2), highRatio) THEN "high_intensity_focused"
                    ELSE IF Less(highRatio, Rat(2, 10)) THEN "low_intensity_focused"
                    ELSE "balanced"]
               : <<weekly, strains, avgStrain, highRatio>> \in
                   { The({ <<weeklyWorkouts(ws), strains,
                             calculateMean([i \in 1..Len(strains) |-> Float(strains[i])]),
                             Rat(Cardinality({i \in 1..Len(strains) : strains[i] > 15}),
                                 Len(strains))>>
                           : strains \in {[i \in 1..Len(ws) |-> ws[i].Strain] \o
                                          [i \in 1..Len(cs) |-> cs[i].Strain]} }) } })

\* a consistency score is below the limit t < 1
ConsistencyBelow(c, t) ==
    IF "n" \in DOMAIN c THEN Less(c, t)
    ELSE The({Less(Times(u, u), c.oneMinusRootOf) : u \in {Minus(One, t)}})

\* a TherapyInsight: its category, what its text is about, and its severity
Insight(category, insight, severity) ==
    [Category |-> category, Insight |-> insight, Severity |-> severity]

\* generateTherapyInsights, were it to return at its first insight
firstTherapyInsight(recovery, sleep, stress, activity) ==
    IF recovery.Trend = "declining"
    THEN <<Insight("recovery", "scores have declined", "concern")>>
    ELSE IF ConsistencyBelow(recovery.ConsistencyScore, Rat(6, 10))
    THEN <<Insight("recovery", "high variability", "info")>>
    ELSE IF Less(sleep.AverageHours, Float(7))
    THEN <<Insight("sleep", "duration below recommended",
                   IF Less(sleep.AverageHours, Float(6)) THEN "alert" ELSE "concern")>>
    ELSE IF Less(sleep.AverageEfficiency, Rat(85, 100))
    THEN <<Insight("sleep", "efficiency", "concern")>>
    ELSE IF sleep.SleepQualityTrend = "declining"
    THEN <<Insight("sleep", "quality declining", "concern")>>
    ELSE IF stress.StressLevel \in {"critical", "high"}
    THEN <<Insight("stress", "elevated stress", "alert")>>
    ELSE IF stress.PoorRecoveryStreak >= 3
    THEN <<Insight("stress", "extended poor recovery", "alert")>>
    ELSE IF activity.OvertrainingRisk = "high"
    THEN <<Insight("activity", "high training load", "concern")>>
    ELSE IF activity.WeeklyWorkouts = 0
    THEN <<Insight("activity", "no recorded activity", "info")>>
    ELSE <<>>

\* generateTherapyInsights: the insights in the order they are appended
generateTherapyInsights(recovery, sleep, stress, activity) ==
       (IF recovery.Trend = "declining"
        THEN <<Insight("recovery", "scores have declined", "concern")>> ELSE <<>>)
    \o (IF ConsistencyBelow(recovery.ConsistencyScore, Rat(6, 10))
        THEN <<Insight("recovery", "high variability", "info")>> ELSE <<>>)
    \o (IF Less(sleep.AverageHours, Float(7))
        THEN <<Insight("sleep", "duration below recommended",
                       IF Less(sleep.AverageHours, Float(6)) THEN "alert" ELSE "concern")>>
        ELSE <<>>)
    \o (IF Less(sleep.AverageEfficiency, Rat(85, 100))
        THEN <<Insight("sleep", "efficiency", "concern")>> ELSE <<>>)
    \o (IF sleep.SleepQualityTrend = "declining"
        THEN <<Insight("sleep", "quality declining", "concern")>> ELSE <<>>)
    \o (IF stress.StressLevel \in {"critical", "high"}
        THEN <<Insight("stress", "elevated stress", "alert")>> ELSE <<>>)
    \o (IF stress.PoorRecoveryStreak >= 3
        THEN <<Insight("stress", "extended poor recovery", "alert")>> ELSE <<>>)
    \o (IF activity.OvertrainingRisk = "high"
        THEN <<Insight("activity", "high training load", "concern")>> ELSE <<>>)
    \o (IF activity.WeeklyWorkouts = 0
        THEN <<Insight("activity", "no recorded activity", "info")>> ELSE <<>>)

RedFlag(type, severity) == [Type |-> type, Severity |-> severity]

\* the nights detectRedFlags takes for the recent ones: the last three
\* elements of the batch, all of them when there are fewer
recentSleep(data) ==
    Slice(data, IF Len(data) < 3 THEN 1 ELSE Len(data) - 2, Len(data))

\* the records detectRedFlags takes for the baseline: its loop starts at
\* len - 10 and ends at once when that index is negative
baselineScores(recs) ==
    IF Len(recs) - 10 >= 0
    THEN [i \in 1..7 |-> Float(recs[Len(recs) - 10 + i].RecoveryScore)]
    ELSE <<>>

\* detectRedFlags: the red flags in the order they are appended
detectRedFlags(recs, data, stress) ==
       (IF stress.StressLevel = "critical"
        THEN <<RedFlag("chronic_stress", "critical")>> ELSE <<>>)
    \o (IF stress.PoorRecoveryStreak >= 7
        THEN <<RedFlag("extended_poor_recovery", "high")>> ELSE <<>>)
    \o (IF Len(data) > 0 /\
           Less(calculateMean(The({[i \in 1..Len(nights) |-> sleepDuration(nights[i])]
                                      : nights \in {recentSleep(data)}})),
                Float(5))
        THEN <<RedFlag("severe_sleep_deprivation", "critical")>> ELSE <<>>)
    \o (IF Len(recs) >= 7 /\
           The({ Len(baseline) > 0 /\
                 Less(calculateMean([i \in 1..3 |->
                          Float(recs[Len(recs) - 3 + i].RecoveryScore)]),
                      Minus(calculateMean(baseline), Float(30)))
                 : baseline \in {baselineScores(recs)} })
        THEN <<RedFlag("dramatic_recovery_decline", "high")>> ELSE <<>>)

NoSummary ==
    [by |-> "", RecoveryTrend |-> NoRecoveryData, SleepAnalysis |-> NoSleepData,
     StressIndicators |-> NoStressData, ActivityPatterns |-> NoActivityData,
     TherapyInsights |-> <<>>, RedFlags |-> <<>>]

\* AnalyzeHealthSummary on the recovery batch as analyzeRecoveryTrend's
\* sort left it
HealthSummary(sorted, data, ws, cs) ==
    The({ [by               |-> "AnalyzeHealthSummary",
           RecoveryTrend    |-> recoveryTrend,
           SleepAnalysis    |-> sleepAnalysis,
           StressIndicators |-> stressIndicators,
           ActivityPatterns |-> activityPatterns,
           TherapyInsights  |->
               generateTherapyInsights(recoveryTrend, sleepAnalysis, stressIndicators,
                                       activityPatterns),
           RedFlags         |-> detectRedFlags(sorted, data, stressIndicators)]
          : recoveryTrend \in {analyzeRecoveryTrend(sorted)},
            sleepAnalysis \in {analyzeSleepPatterns(data)},
            stressIndicators \in {analyzeStressIndicators(sorted)},
            activityPatterns \in {analyzeActivityPatterns(ws, cs)} })

NothingAnalyzed ==
    /\ recoveries = <<>>
    /\ sleepData = <<>>
    /\ workouts = <<>>
    /\ cycles = <<>>
    /\ summary = NoSummary

\* parseDateRange has not returned
NotParsed == [called |-> FALSE, ok |-> FALSE, err |-> "", start |-> 0, end |-> 0]

Init ==
    /\ Constructed
    /\ pdIn = <<BadShape, BadShape>>
    /\ pdOut = NotParsed
    /\ LimiterFresh
    /\ NothingAnalyzed
    /\ cursors = MaxCursors
    /\ errStatuses = ErrorStatuses
    /\ initialized = FALSE
    /\ reqs = 0

\* an initialized server about to read its last request, a health summary
InitSummary ==
    /\ Constructed
    /\ pdIn = <<BadShape, BadShape>>
    /\ pdOut = NotParsed
    /\ LimiterFresh
    /\ NothingAnalyzed
    /\ cursors = SummaryCursors
    /\ errStatuses = {500}
    /\ initialized = TRUE
    /\ reqs = MaxRequests - 1

(***************************************************************************)
(* The server reads a request: handleRequest.                              *)
(***************************************************************************)
\* a new request starts from fresh handler-local state
NewRequest(c, b) ==
    /\ pc["main"] = "idle"
    /\ reqs < MaxRequests
    /\ reqs' = reqs + 1
    /\ call' = c
    /\ acquired' = 0
    /\ sent' = 0
    /\ mr' = [t \in Tasks |-> NoCall]
    /\ fx' = [k \in Kinds |-> NoFetch]
    /\ newToken' = [t \in Tasks |-> 0]
    /\ \E b1 \in {b} : Apply(b1)
    /\ UNCHANGED <<w, envFile, faults, cursors, errStatuses, unitVars>>

\* the handler runs ops itself, one after the other
RunOps(b, ops) == [Enter(b, "main", Head(ops)) EXCEPT !.todo = Tail(ops)]

\* handleInitialize: ValidateConnection calls GetUser
handleInitialize == NewRequest(InitializeCall, RunOps(Fresh, <<"user">>))

\* handleToolsCall and the tool handler up to its first outbound call
ToolsCall(c) ==
    IF ~initialized
    THEN NewRequest(c, [Fresh EXCEPT !.reply =
             Error(-32002, Err("not_initialized", "", "", 0, NoBody))])
    ELSE \E p \in {executeTool(c)} :
            IF ~p.ok
            THEN NewRequest(c, [Fresh EXCEPT !.reply =
                     Error(-32603, Err("invalid_input", p.err, "", 0, NoBody))])
            ELSE IF p.ops = <<>>
            THEN NewRequest([c EXCEPT !.win = p.win], Spawn(Fresh))
            ELSE NewRequest([c EXCEPT !.win = p.win], RunOps(Fresh, p.ops))

\* the health-summary requests whose arguments pass the handler's checks
SummaryCalls == {c \in ToolCalls : c.tool = "get_health_summary" /\ executeTool(c).ok}

\* tools/call with any other request
handleToolsCall ==
    /\ pc["main"] = "idle"
    /\ reqs < MaxRequests
    /\ \E c \in ToolCalls \ SummaryCalls : ToolsCall(c)

\* tools/call with a health-summary request that passes the checks
handleHealthSummaryCall ==
    /\ pc["main"] = "idle"
    /\ reqs < MaxRequests
    /\ \E c \in SummaryCalls : ToolsCall(c)

(***************************************************************************)
(* The fetch client, one step of one task at a time.                       *)
(***************************************************************************)
\* the GETs of a fetch so far, with one more
Got(f, r, retry) ==
    [gets |-> f.gets + 1,
     retries |-> f.retries + (IF retry THEN 1 ELSE 0),
     served |-> IF ~r.tr /\ r.status = 200 /\ r.body.t = "page"
                THEN Append(f.served, r.body.idx) ELSE f.served]

\* a GET of task t got the answer r
Sent(t, r, retry) ==
    /\ IsFault(r) => faults > 0
    /\ faults' = IF IsFault(r) THEN faults - 1 ELSE faults
    /\ cursors' = IF r.body.next > 0 /\ cursors # Endless THEN cursors - 1 ELSE cursors
    /\ sent' = sent + 1
    /\ fx' = IF cur[t] \in Kinds
             THEN [fx EXCEPT ![cur[t]] = Got(@, r, retry)]
             ELSE fx

\* makeRequest from its start: rateLimiter.Wait grants a slot, the first
\* doRequest is sent, and its response is dealt with
makeRequestTry(t) ==
    /\ pc[t] = "get"
    /\ acquired' = acquired + 1
    /\ \E r \in doRequest(cur[t], nextToken[t], cursors, errStatuses) :
        LET m == [NoCall EXCEPT !.first = r.status, !.url1 = Url(cur[t], nextToken[t])]
        IN  /\ Sent(t, r, FALSE)
            /\ IF r.tr
               THEN Return(t, m, Fail(Err("transport", "", "", 0, NoBody)))
               ELSE IF r.status = 401 /\ canRefreshToken(w)
               THEN Stay(t, m, "refresh")
               ELSE Return(t, m, StatusCheck(r.status, r.body))
    /\ UNCHANGED <<w, envFile, errStatuses, newToken, call, reqs, unitVars>>

\* refreshAccessToken: the POST to the token endpoint is sent
refreshAccessTokenSend(t) ==
    /\ pc[t] = "refresh"
    /\ sent' = sent + 1
    /\ Stay(t, [mr[t] EXCEPT !.refreshes = @ + 1], "refreshing")
    /\ UNCHANGED <<w, envFile, acquired, faults, cursors, errStatuses, fx, newToken, call, reqs, unitVars>>

\* refreshAccessToken: the answer of the token endpoint arrives
refreshAccessTokenRecv(t) ==
    /\ pc[t] = "refreshing"
    /\ \E o \in RefreshOutcomes, writeOK \in BOOLEAN :
        LET r == refreshAccessToken(w, envFile, o, writeOK)
        IN  /\ ~o.ok => faults > 0 /\ writeOK
            /\ faults' = IF o.ok THEN faults ELSE faults - 1
            /\ w' = r.w
            /\ envFile' = r.env
            /\ newToken' = [newToken EXCEPT ![t] = r.token]
            /\ IF r.ok
               THEN Stay(t, mr[t], "setkey")
               ELSE Return(t, mr[t], Fail(r.err))
    /\ UNCHANGED <<acquired, sent, cursors, errStatuses, fx, call, reqs, unitVars>>

\* makeRequest: w.apiKey = newToken
setApiKey(t) ==
    /\ pc[t] = "setkey"
    /\ w' = [w EXCEPT !.apiKey = newToken[t]]
    /\ Stay(t, mr[t], "retry")
    /\ UNCHANGED <<envFile, acquired, sent, faults, cursors, errStatuses, fx, newToken, call, reqs, unitVars>>

\* makeRequest, were a second 401 answered with another refresh
makeRequestRetryAgain(t) ==
    /\ pc[t] = "retry"
    /\ \E r \in doRequest(cur[t], nextToken[t], cursors, errStatuses) :
        LET m == [mr[t] EXCEPT !.second = r.status, !.retries = @ + 1,
                               !.url2 = Url(cur[t], nextToken[t]),
                               !.body2 = [r.body EXCEPT !.next = 0]]
        IN  /\ Sent(t, r, TRUE)
            /\ IF r.tr
               THEN Return(t, m, Fail(Err("transport", "", "", 0, NoBody)))
               ELSE IF r.status = 401
               THEN Stay(t, m, "refresh")
               ELSE Return(t, m, StatusCheck(r.status, r.body))
    /\ UNCHANGED <<w, envFile, acquired, errStatuses, newToken, call, reqs, unitVars>>

\* makeRequest: the second doRequest and what follows its response
makeRequestRetry(t) ==
    /\ pc[t] = "retry"
    /\ \E r \in doRequest(cur[t], nextToken[t], cursors, errStatuses) :
        LET m == [mr[t] EXCEPT !.second = r.status, !.retries = @ + 1,
                               !.url2 = Url(cur[t], nextToken[t]),
                               !.body2 = [r.body EXCEPT !.next = 0]]
        IN  /\ Sent(t, r, TRUE)
            /\ IF r.tr
               THEN Return(t, m, Fail(Err("transport", "", "", 0, NoBody)))
               ELSE IF r.status = 401
               THEN Return(t, m, Fail(Err("auth_after_refresh", "", "", 0, NoBody)))
               ELSE Return(t, m, StatusCheck(r.status, r.body))
    /\ UNCHANGED <<w, envFile, acquired, errStatuses, newToken, call, reqs, unitVars>>

(***************************************************************************)
(* executeHealthSummaryTool: the tasks report, the handler joins.          *)
(***************************************************************************)
\* a failing task, were errCh to hold a single error
SendErrorOne(t) ==
    /\ t \in Kinds
    /\ pc[t] = "send"
    /\ Len(errCh) < 1
    /\ errCh' = Append(errCh, Wrap(t, fres[t].err))
    /\ sendLog' = Append(sendLog, Wrap(t, fres[t].err))
    /\ pc' = [pc EXCEPT ![t] = "done"]
    /\ UNCHANGED <<clientVars, cur, nextToken, acc, fres, todo, batches, reply,
                   analyzed, initialized, call, reqs, unitVars>>

\* a failing task, were its error not sent on errCh
SendErrorLost(t) ==
    /\ t \in Kinds
    /\ pc[t] = "send"
    /\ pc' = [pc EXCEPT ![t] = "done"]
    /\ UNCHANGED <<clientVars, cur, nextToken, acc, fres, todo, errCh, sendLog,
                   batches, reply, analyzed, initialized, call, reqs, unitVars>>

\* errCh <- fmt.Errorf("failed to get ... data: %w", err), then wg.Done
SendError(t) ==
    /\ t \in Kinds
    /\ pc[t] = "send"
    /\ Len(errCh) < ErrChCap
    /\ errCh' = Append(errCh, Wrap(t, fres[t].err))
    /\ sendLog' = Append(sendLog, Wrap(t, fres[t].err))
    /\ pc' = [pc EXCEPT ![t] = "done"]
    /\ UNCHANGED <<clientVars, cur, nextToken, acc, fres, todo, batches, reply,
                   analyzed, initialized, call, reqs, unitVars>>

\* wg.Wait returns when the four tasks called wg.Done
wgWait == \A k \in Kinds : pc[k] = "done"

\* the error of the handler, were it the last one received
LastError(ch) == ch[Len(ch)]

\* for err := range errCh: the first error received
FirstError(ch) == Head(ch)

\* wg.Wait, close(errCh), and the rest of the handler
Join ==
    /\ pc["main"] = "join"
    /\ wgWait
    /\ pc' = [pc EXCEPT !["main"] = "idle"]
    /\ IF errCh # <<>>
       THEN /\ reply' = Error(-32603, FirstError(errCh))
            /\ errCh' = Tail(errCh)
            /\ analyzed' = analyzed
       ELSE /\ reply' = Result(batches)
            /\ errCh' = errCh
            /\ analyzed' = TRUE
    /\ UNCHANGED <<clientVars, cur, nextToken, acc, fres, todo, sendLog, batches,
                   initialized, call, reqs, unitVars>>

\* the server with the handlers that fetch one batch after the other
Next ==
    \/ handleInitialize
    \/ handleToolsCall
    \/ \E t \in Tasks : makeRequestTry(t)
    \/ \E t \in Tasks : refreshAccessTokenSend(t)
    \/ \E t \in Tasks : refreshAccessTokenRecv(t)
    \/ \E t \in Tasks : setApiKey(t)
    \/ \E t \in Tasks : makeRequestRetry(t)

Spec == Init /\ [][Next]_vars

(***************************************************************************)
(* The server with all the methods of handleRequest.                       *)
(***************************************************************************)
\* a request of a method without tool arguments; resources/read names a uri
MethodCall(method, uri) ==
    [method |-> method, tool |-> "", start |-> BadShape, end |-> BadShape,
     metric |-> "", days |-> 0, userGiven |-> FALSE,
     win |-> [start |-> 0, end |-> 0], uri |-> uri]

\* the uris asked for: the user profile, and one that is no resource
ResourceURIs == {"whoop://user/profile", "whoop://unknown"}

\* the answer of a method that needs initialize first
NotInitialized == Error(-32002, Err("not_initialized", "", "", 0, NoBody))

\* handleToolsList
handleToolsList ==
    \E c \in {MethodCall("tools/list", "")} :
        IF ~initialized
        THEN NewRequest(c, [Fresh EXCEPT !.reply = NotInitialized])
        ELSE NewRequest(c, [Fresh EXCEPT !.reply = Result(EmptyBatches)])

\* handleResourcesList
handleResourcesList ==
    \E c \in {MethodCall("resources/list", "")} :
        IF ~initialized
        THEN NewRequest(c, [Fresh EXCEPT !.reply = NotInitialized])
        ELSE NewRequest(c, [Fresh EXCEPT !.reply = Result(EmptyBatches)])

\* handleResourcesRead and readResource up to its first outbound call
handleResourcesRead ==
    \E uri \in ResourceURIs :
        \E c \in {MethodCall("resources/read", uri)} :
            IF ~initialized
            THEN NewRequest(c, [Fresh EXCEPT !.reply = NotInitialized])
            ELSE IF uri = "whoop://user/profile"
            THEN NewRequest(c, RunOps(Fresh, <<"user">>))
            ELSE NewRequest(c, [Fresh EXCEPT !.reply =
                     Error(-32603, Err("invalid_input", "unknown resource", "", 0, NoBody))])

NextSession ==
    \/ handleInitialize
    \/ handleToolsList
    \/ handleToolsCall
    \/ handleResourcesList
    \/ handleResourcesRead
    \/ \E t \in Tasks : makeRequestTry(t)
    \/ \E t \in Tasks : refreshAccessTokenSend(t)
    \/ \E t \in Tasks : refreshAccessTokenRecv(t)
    \/ \E t \in Tasks : setApiKey(t)
    \/ \E t \in Tasks : makeRequestRetry(t)

SpecSession == Init /\ [][NextSession]_vars

\* the server with the handler that fetches the four batches concurrently
NextSummary ==
    \/ handleHealthSummaryCall
    \/ \E t \in Tasks : makeRequestTry(t)
    \/ \E t \in Tasks : refreshAccessTokenSend(t)
    \/ \E t \in Tasks : refreshAccessTokenRecv(t)
    \/ \E t \in Tasks : setApiKey(t)
    \/ \E t \in Tasks : makeRequestRetry(t)
    \/ \E t \in Tasks : SendError(t)
    \/ Join

SpecSummary == InitSummary /\ [][NextSummary]_vars

\* an initialized server about to read a health summary, with a remote whose
\* chains of pages end and that may fail, or with one that answers every
\* request and returns a cursor with every page
InitChain ==
    /\ w \in Clients
    /\ envFile = [apiKey |-> 0, refreshToken |-> 0]
    /\ acquired = 0
    /\ sent = 0
    /\ \/ cursors = SummaryCursors /\ faults = ChainFaults
       \/ cursors = Endless /\ faults = 0
    /\ mr = [t \in Tasks |-> NoCall]
    /\ fx = [k \in Kinds |-> NoFetch]
    /\ newToken = [t \in Tasks |-> 0]
    /\ pc = [t \in Tasks |-> IF t = "main" THEN "idle" ELSE "off"]
    /\ cur = [t \in Tasks |-> t]
    /\ nextToken = [t \in Tasks |-> 0]
    /\ acc = [t \in Tasks |-> <<>>]
    /\ fres = [k \in Kinds |-> NoFres]
    /\ todo = <<>>
    /\ errCh = <<>>
    /\ sendLog = <<>>
    /\ batches = EmptyBatches
    /\ reply = NoReply
    /\ analyzed = FALSE
    /\ call = NoCallYet
    /\ pdIn = <<BadShape, BadShape>>
    /\ pdOut = NotParsed
    /\ LimiterFresh
    /\ NothingAnalyzed
    /\ errStatuses = {500}
    /\ initialized = TRUE
    /\ reqs = MaxRequests - 1

\* a task up to its MaxPages-th page: the model follows a fetch no further
Followed(t) == cur[t] \in Kinds => Len(fx[cur[t]].served) < MaxPages

\* a step of task t, as long as the model follows its fetch
Step(t) ==
    /\ Followed(t)
    /\ \/ makeRequestTry(t)
       \/ refreshAccessTokenSend(t)
       \/ refreshAccessTokenRecv(t)
       \/ setApiKey(t)
       \/ makeRequestRetry(t)
       \/ SendError(t)

NextChain ==
    \/ handleHealthSummaryCall
    \/ \E t \in Tasks : Step(t)
    \/ Join

\* the health summary with a rate limiter that grants every slot in the end,
\* a remote that answers every request, and goroutines that are scheduled
SpecChain ==
    /\ InitChain
    /\ [][NextChain]_vars
    /\ \A t \in Tasks : WF_vars(Step(t))
    /\ WF_vars(Join)

\* an initialized server about to read a health summary, with a client that
\* cannot refresh its token and a remote that may fail every one of the four
\* fetches and returns single pages
InitJoin ==
    /\ w \in {c \in Clients : ~canRefreshToken(c)}
    /\ envFile = [apiKey |-> 0, refreshToken |-> 0]
    /\ acquired = 0
    /\ sent = 0
    /\ faults = SummaryFaults
    /\ mr = [t \in Tasks |-> NoCall]
    /\ fx = [k \in Kinds |-> NoFetch]
    /\ newToken = [t \in Tasks |-> 0]
    /\ pc = [t \in Tasks |-> IF t = "main" THEN "idle" ELSE "off"]
    /\ cur = [t \in Tasks |-> t]
    /\ nextToken = [t \in Tasks |-> 0]
    /\ acc = [t \in Tasks |-> <<>>]
    /\ fres = [k \in Kinds |-> NoFres]
    /\ todo = <<>>
    /\ errCh = <<>>
    /\ sendLog = <<>>
    /\ batches = EmptyBatches
    /\ reply = NoReply
    /\ analyzed = FALSE
    /\ call = NoCallYet
    /\ pdIn = <<BadShape, BadShape>>
    /\ pdOut = NotParsed
    /\ LimiterFresh
    /\ NothingAnalyzed
    /\ cursors = 0
    /\ errStatuses = {500}
    /\ initialized = TRUE
    /\ reqs = MaxRequests - 1

\* the health summary with goroutines that are scheduled: a task that can
\* send its error does, and the handler goes on when wg.Wait returns
NextJoin ==
    \/ handleHealthSummaryCall
    \/ \E t \in Tasks : makeRequestTry(t)
    \/ \E t \in Tasks : SendError(t)
    \/ Join

SpecJoin ==
    /\ InitJoin
    /\ [][NextJoin]_vars
    /\ \A t \in Kinds : WF_vars(SendError(t))
    /\ WF_vars(Join)

(***************************************************************************)
(* parseDateRange on its own, over date arguments around the ends of       *)
(* months and years, in leap years and others.                             *)
(***************************************************************************)
DateStrings ==
    {DateStr(TRUE, y, m, d) : y \in {1999, 2023, 2024}, m \in {1, 2, 12, 13},
                              d \in {0, 1, 28, 29, 30, 31}}
    \cup {BadShape}

InitDate ==
    /\ Constructed
    /\ cursors = MaxCursors
    /\ errStatuses = ErrorStatuses
    /\ initialized = FALSE
    /\ reqs = 0
    /\ pdIn \in DateStrings \X DateStrings
    /\ pdOut = NotParsed
    /\ LimiterFresh
    /\ NothingAnalyzed

\* a call of parseDateRange returns
ParseDateRange ==
    /\ ~pdOut.called
    /\ pdOut' = [called |-> TRUE] @@ parseDateRange(pdIn[1], pdIn[2])
    /\ UNCHANGED <<clientVars, taskVars, serverVars, pdIn, limiterVars, analysisVars>>

NextDate == ParseDateRange

SpecDate == InitDate /\ [][NextDate]_vars

(***************************************************************************)
(* The rate limiter on its own: the goroutines of a health summary call    *)
(* makeRequest again and again while time passes.                          *)
(***************************************************************************)
InitLimiter ==
    /\ Constructed
    /\ pdIn = <<BadShape, BadShape>>
    /\ pdOut = NotParsed
    /\ LimiterFresh
    /\ NothingAnalyzed
    /\ cursors = MaxCursors
    /\ errStatuses = ErrorStatuses
    /\ initialized = TRUE
    /\ reqs = 0

\* makeRequest calls rateLimiter.Wait(context.Background()): the call
\* returns at once, with an error or with a token, or starts to wait
rateLimiterWait(t) ==
    /\ lw[t].st = "out"
    /\ \E r \in {Wait(limiter, Background)} :
          /\ limiter' = r.lim
          /\ lw' = [lw EXCEPT ![t] =
                       IF r.err # "" THEN [st |-> "err", delay |-> 0]
                       ELSE IF r.delay = 0 THEN [st |-> "ok", delay |-> 0]
                       ELSE [st |-> "wait", delay |-> r.delay]]
    /\ UNCHANGED <<clientVars, taskVars, serverVars, dateVars, analysisVars>>

\* one token interval passes: the bucket gains a token, up to Burst, and
\* every timer is one interval nearer
Tick ==
    /\ limiter' = [tokens |-> IF limiter.tokens < Burst THEN limiter.tokens + 1 ELSE Burst]
    /\ lw' = [t \in Kinds |->
                 IF lw[t].delay > 0 THEN [lw[t] EXCEPT !.delay = @ - 1] ELSE lw[t]]
    /\ UNCHANGED <<clientVars, taskVars, serverVars, dateVars, analysisVars>>

\* the timer of a waiting call fires: Wait returns nil
timerFires(t) ==
    /\ lw[t].st = "wait"
    /\ lw[t].delay = 0
    /\ lw' = [lw EXCEPT ![t] = [st |-> "ok", delay |-> 0]]
    /\ UNCHANGED <<clientVars, taskVars, serverVars, dateVars, analysisVars, limiter>>

\* makeRequest goes on after Wait and returns; the goroutine is free to
\* call makeRequest again
makeRequestReturns(t) ==
    /\ lw[t].st \in {"ok", "err"}
    /\ lw' = [lw EXCEPT ![t] = Outside]
    /\ UNCHANGED <<clientVars, taskVars, serverVars, dateVars, analysisVars, limiter>>

NextLimiter ==
    \/ \E t \in Kinds : rateLimiterWait(t)
    \/ Tick
    \/ \E t \in Kinds : timerFires(t)
    \/ \E t \in Kinds : makeRequestReturns(t)

\* time passes, and a goroutine whose timer fired is scheduled
SpecLimiter ==
    /\ InitLimiter
    /\ [][NextLimiter]_vars
    /\ WF_vars(Tick)
    /\ \A t \in Kinds : WF_vars(timerFires(t))

(***************************************************************************)
(* The health analyzer on its own, over batches of records.                *)
(***************************************************************************)
MaxRecords == 9
MaxLead == 2
MaxOlder == 1
MaxBaseline == 7
MaxRecent == 4
MaxNights == 4
MaxWorkouts == 2
MaxNewestFirst == 3

LeadScores == {25, 33}
StressScores == {0, 34, 80}
TrendScores == {10, 45, 50, 70, 80, 90}
SleepHours == {4, 5, 6}
Strains == {5, 16, 19}

\* n daily recoveries, oldest first: k of score x, then the others of score
\* y; the HRV doubles on each of the last e days and the resting heart rate
\* gains 11 on each of the last h days
StressBatch(n, k, x, y, e, h) ==
    [i \in 1..n |->
        Recovery(i, IF i <= k THEN x ELSE y,
                 50 + 11 * (IF i > n - h THEN i - (n - h) ELSE 0),
                 10 * 2 ^ (IF i > n - e THEN i - (n - e) ELSE 0))]

StressBatches ==
    UNION {{StressBatch(n, k, x, y, e, h) :
               k \in 0..MaxLead, x \in LeadScores, y \in StressScores,
               e \in 0..(n - 1), h \in 0..(n - 1)}
           : n \in 1..MaxRecords}

\* the batch in the order the remote may return it: oldest or newest first
Reverse(s) == [i \in 1..Len(s) |-> s[Len(s) + 1 - i]]
Orders(s) == {s, Reverse(s)}

\* daily recoveries of score 34 with a rising HRV or heart rate, as a remote
\* that lists the newest record first returns them
NewestFirstBatches ==
    UNION {{Reverse(StressBatch(n, 0, 33, 34, e, h)) :
               e \in 0..(n - 1), h \in 0..(n - 1)}
           : n \in 2..MaxNewestFirst}

\* daily recoveries of steady HRV and heart rate: o older days of score 10,
\* then b days of score x, then r days of score y
TrendBatch(o, b, r, x, y) ==
    [i \in 1..(o + b + r) |->
        Recovery(i, IF i <= o THEN 10 ELSE IF i <= o + b THEN x ELSE y, 50, 60)]

TrendBatches ==
    UNION {Orders(TrendBatch(o, b, r, x, y)) :
              o \in 0..MaxOlder, b \in 0..MaxBaseline, r \in 0..MaxRecent,
              x \in TrendScores, y \in TrendScores}

\* nights of one hour awake, 90% efficiency, eight hours needed and two
\* disturbances, oldest or newest first
SleepBatches ==
    UNION {UNION {Orders([i \in 1..n |->
                     Sleep(i, (hours[i] + 1) * MilliPerHour, MilliPerHour, 90,
                           8 * MilliPerHour, 2)]) : hours \in [1..n -> SleepHours]}
           : n \in 0..MaxNights}

\* nights of seven hours asleep, the i-th with i disturbances
DisturbedNights ==
    {[i \in 1..n |-> Sleep(i, 8 * MilliPerHour, MilliPerHour, 90, 8 * MilliPerHour, i)]
        : n \in 1..MaxNights}

\* workouts or cycles every gap days, of any strains
WorkoutBatches ==
    UNION {{[i \in 1..n |-> Activity(gap * i, strains[i])]
               : gap \in {0, 1, 3}, strains \in [1..n -> Strains]}
           : n \in 0..MaxWorkouts}

Input(recs, data, ws, cs) ==
    [recoveries |-> recs, sleepData |-> data, workouts |-> ws, cycles |-> cs]

Inputs ==
    {Input(recs, <<>>, <<>>, <<>>) :
        recs \in StressBatches \cup NewestFirstBatches \cup TrendBatches}
    \cup {Input(<<>>, data, <<>>, <<>>) : data \in SleepBatches \cup DisturbedNights}
    \cup {Input(<<>>, <<>>, ws, cs) : ws \in WorkoutBatches, cs \in WorkoutBatches}

InitAnalysis ==
    /\ Constructed
    /\ canRefreshToken(w)
    /\ pdIn = <<BadShape, BadShape>>
    /\ pdOut = NotParsed
    /\ LimiterFresh
    /\ cursors = MaxCursors
    /\ errStatuses = ErrorStatuses
    /\ initialized = TRUE
    /\ reqs = 0
    /\ \E input \in Inputs :
          /\ recoveries = input.recoveries
          /\ sleepData = input.sleepData
          /\ workouts = input.workouts
          /\ cycles = input.cycles
    /\ summary = NoSummary

\* get_health_summary hands its four batches to AnalyzeHealthSummary, whose
\* first step sorts the caller's recovery batch in place
AnalyzeHealthSummary ==
    /\ summary.by = ""
    /\ \E sorted \in {sortByCreatedAt(recoveries)} :
          /\ recoveries' = sorted
          /\ summary' = HealthSummary(sorted, sleepData, workouts, cycles)
    /\ UNCHANGED <<clientVars, taskVars, serverVars, dateVars, limiterVars,
                   sleepData, workouts, cycles>>

\* analyze_stress_indicators hands the recovery batch to
\* analyzeStressIndicators as the remote returned it
executeStressAnalysisTool ==
    /\ summary.by = ""
    /\ summary' = [NoSummary EXCEPT !.by = "executeStressAnalysisTool",
                                    !.StressIndicators = analyzeStressIndicators(recoveries)]
    /\ UNCHANGED <<clientVars, taskVars, serverVars, dateVars, limiterVars, batchVars>>

\* analyze_health_trends hands the recovery batch to analyzeRecoveryTrend,
\* which sorts it in place
executeRecoveryTrendTool ==
    /\ summary.by = ""
    /\ \E sorted \in {sortByCreatedAt(recoveries)} :
          /\ recoveries' = sorted
          /\ summary' = [NoSummary EXCEPT !.by = "executeTrendAnalysisTool",
                                          !.RecoveryTrend = analyzeRecoveryTrend(sorted)]
    /\ UNCHANGED <<clientVars, taskVars, serverVars, dateVars, limiterVars,
                   sleepData, workouts, cycles>>

NextAnalysis ==
    \/ AnalyzeHealthSummary
    \/ executeStressAnalysisTool
    \/ executeRecoveryTrendTool

SpecAnalysis == InitAnalysis /\ [][NextAnalysis]_vars

(***************************************************************************)
(* generateTherapyInsights on its own, over the analyses it may be given.  *)
(***************************************************************************)
\* the analyses: values on both sides of every threshold of the rules
RecoveryTrends ==
    {[NoRecoveryData EXCEPT !.Trend = trend, !.ConsistencyScore = consistency] :
        trend \in {"declining", "stable"}, consistency \in {Rat(4, 10), Rat(6, 10)}}

SleepAnalyses ==
    {[NoSleepData EXCEPT !.AverageHours = hours, !.AverageEfficiency = efficiency,
                         !.SleepQualityTrend = trend] :
        hours \in {Rat(11, 2), Float(6), Float(7)},
        efficiency \in {Rat(75, 100), Rat(85, 100)},
        trend \in {"declining", "stable"}}

StressIndications ==
    {[NoStressData EXCEPT !.StressLevel = level, !.PoorRecoveryStreak = streak] :
        level \in {"low", "high", "critical"}, streak \in {2, 3, 5}}

ActivityAnalyses ==
    {[NoActivityData EXCEPT !.OvertrainingRisk = risk, !.WeeklyWorkouts = weekly] :
        risk \in {"low", "high"}, weekly \in {0, 3}}

InitInsights ==
    /\ Constructed
    /\ canRefreshToken(w)
    /\ pdIn = <<BadShape, BadShape>>
    /\ pdOut = NotParsed
    /\ LimiterFresh
    /\ cursors = MaxCursors
    /\ errStatuses = ErrorStatuses
    /\ initialized = TRUE
    /\ reqs = 0
    /\ recoveries = <<>>
    /\ sleepData = <<>>
    /\ workouts = <<>>
    /\ cycles = <<>>
    /\ \E recovery \in RecoveryTrends, sleep \in SleepAnalyses,
          stress \in StressIndications, activity \in ActivityAnalyses :
          summary = [NoSummary EXCEPT !.RecoveryTrend = recovery,
                                      !.SleepAnalysis = sleep,
                                      !.StressIndicators = stress,
                                      !.ActivityPatterns = activity]

\* generateTherapyInsights is called with the four analyses
TherapyInsightsCall ==
    /\ summary.by = ""
    /\ summary' = [summary EXCEPT
          !.by = "generateTherapyInsights",
          !.TherapyInsights =
              generateTherapyInsights(summary.RecoveryTrend, summary.SleepAnalysis,
                                      summary.StressIndicators, summary.ActivityPatterns)]
    /\ UNCHANGED <<clientVars, taskVars, serverVars, dateVars, limiterVars, batchVars>>

NextInsights == TherapyInsightsCall

SpecInsights == InitInsights /\ [][NextInsights]_vars

(***************************************************************************)
(* Properties of makeRequest.                                              *)
(***************************************************************************)
InMakeRequest(t) == pc[t] \in {"refresh", "refreshing", "setkey", "retry"}

\* C1: a makeRequest call refreshes at most once and retries at most once; a
\* call whose first answer is 401 and whose retry is answered 200 made exactly
\* one refresh and one retry of the same URL and returns the retried body; a
\* call whose retry is answered 401 too returns the authentication error; a
\* call that returned sends nothing more.
C1_OneRefreshOneRetry ==
    \A t \in Tasks :
        LET m == mr[t]
        IN  /\ m.refreshes <= 1
            /\ m.retries <= 1
            /\ m.done => ~InMakeRequest(t)
            /\ (m.done /\ m.first = 401 /\ m.second = 200) =>
                   /\ m.refreshes = 1
                   /\ m.retries = 1
                   /\ m.url2 = m.url1
                   /\ m.res = Ok(m.body2)
            /\ (m.done /\ m.first = 401 /\ m.second = 401) =>
                   /\ m.refreshes = 1
                   /\ m.retries = 1
                   /\ ~m.res.ok
                   /\ m.res.err.type = "auth_after_refresh"

\* a call answered 401, then 200 after the refresh, has returned
C1_Witness ==
    \E t \in Tasks :
        /\ mr[t].done
        /\ mr[t].first = 401
        /\ mr[t].second = 200
        /\ mr[t].res.ok
        /\ mr[t].res.body.t = "page"

\* a makeRequest call returned the error of a failed refresh
RefreshFailed(t) == mr[t].done /\ mr[t].res.err.type = "refresh_failed"

\* a step in which the refresh exchange of task t fails
RefreshFails(t) == pc[t] = "refreshing" /\ RefreshFailed(t)'

\* C9: when the refresh exchange fails (no response, a status other than 200,
\* a body that does not parse), makeRequest returns an error having made one
\* refresh and no retry, the fetch around it fails and the handler answers
\* with an error, and the step leaves the client's apiKey and refreshToken as
\* they were.
C9_RefreshFailureIsFatal ==
    /\ [](\A t \in Tasks :
            RefreshFailed(t) =>
                /\ ~mr[t].res.ok
                /\ mr[t].refreshes = 1
                /\ mr[t].retries = 0
                /\ mr[t].second = 0
                /\ ~InMakeRequest(t)
                /\ pc[t] # "get"
                /\ cur[t] \in Kinds => fres[cur[t]].state = "fail"
                /\ reply.kind = "error")
    /\ [][\A t \in Tasks :
            RefreshFails(t) =>
                /\ w'.apiKey = w.apiKey
                /\ w'.refreshToken = w.refreshToken]_vars

\* the refresh inside a fetch failed on a body that does not parse
C9_Witness ==
    \E t \in Tasks :
        /\ RefreshFailed(t)
        /\ mr[t].res.err.cause = "parse"
        /\ cur[t] \in Kinds
        /\ canRefreshToken(w)

\* the category the statuses fall in
Category(status) ==
    CASE status = 400 -> "bad_request"
      [] status = 403 -> "forbidden"
      [] status = 404 -> "not_found"
      [] status = 429 -> "rate_limited"
      [] status \in 500..599 -> "server_error"
      [] OTHER -> "unknown"

\* C10: a makeRequest call whose first answer has a status outside 2xx other
\* than 401 returns, without a retry and without a refresh, an error that
\* names the category of the status and carries the status and the body.
C10_CategorizedError ==
    \A t \in Tasks :
        LET m == mr[t]
        IN  (m.done /\ m.first > 0 /\ m.first \notin 200..299 /\ m.first # 401) =>
                /\ m.refreshes = 0
                /\ m.retries = 0
                /\ ~m.res.ok
                /\ m.res.err.category = Category(m.first)
                /\ m.res.err.status = m.first
                /\ m.res.err.body = ErrBody(m.first)

(***************************************************************************)
(* Properties of a request as a whole.                                     *)
(***************************************************************************)
\* C5: the outbound requests sent never outnumber the slots the rate limiter
\* granted: each GET, each retry GET and each refresh POST is sent on a slot
\* of its own.
C5_SentWithinAcquired == sent <= acquired

\* the call gives a date that does not parse, an end date before the start
\* date, or a metric that is none of recovery, sleep and strain
InvalidInput(c) ==
    /\ c.method = "tools/call"
    /\ \/ /\ c.tool \in DateTools
          /\ \/ ~TimeParse(c.start).ok
             \/ ~TimeParse(c.end).ok
             \/ TimeParse(c.end).t < TimeParse(c.start).t
       \/ /\ c.tool = "analyze_health_trends"
          /\ c.metric \notin {"recovery", "sleep", "strain"}

\* C6: a tool call with a malformed date, an end date before the start date
\* or an unsupported metric sends no outbound request, and its answer is an
\* error.
C6_InvalidInputNoRequest ==
    InvalidInput(call) =>
        /\ sent = 0
        /\ pc["main"] = "idle" => reply.kind = "error"

(***************************************************************************)
(* Properties of the fetches.                                              *)
(***************************************************************************)
\* p1 ++ ... ++ pn
RECURSIVE Pages(_)
Pages(n) == IF n = 0 THEN <<>> ELSE Pages(n - 1) \o PageData(n)

\* C2: a fetch that returned got the pages 1..n in this order, the last one
\* with an empty or absent cursor, made one makeRequest call for each (n GETs
\* besides the retries after a refresh), and returns p1 ++ ... ++ pn.
C2_PagesInOrder ==
    \A k \in Kinds :
        fres[k].state = "done" =>
            LET n == Len(fx[k].served)
            IN  /\ n >= 1
                /\ fx[k].served = [i \in 1..n |-> i]
                /\ fx[k].gets = n + fx[k].retries
                /\ fres[k].data = Pages(n)
                /\ batches[k] = Pages(n)

\* a fetch returned three pages from three GETs
C2_Witness ==
    \E k \in Kinds :
        /\ fres[k].state = "done"
        /\ fx[k].served = <<1, 2, 3>>
        /\ fx[k].gets = 3
        /\ fres[k].data = <<2, 1, 4, 6, 5>>

(***************************************************************************)
(* Properties of parseDateRange.                                           *)
(***************************************************************************)
\* the instant t is h:m:s on the date the string s spells
IsAt(t, s, secs) ==
    /\ CivilFromDays(t \div SecPerDay) = <<s.y, s.m, s.d>>
    /\ t % SecPerDay = secs

\* C7: for two valid strings of the same date parseDateRange returns 00:00:00
\* of that date as the start and 23:59:59 of that date as the end; for two
\* valid strings of different dates it returns 00:00:00 of each.
C7_SameDayEndOfDay ==
    (pdOut.called /\ TimeParse(pdIn[1]).ok /\ TimeParse(pdIn[2]).ok) =>
        /\ pdOut.ok
        /\ IsAt(pdOut.start, pdIn[1], 0)
        /\ IF pdIn[1] = pdIn[2]
           THEN IsAt(pdOut.end, pdIn[2], SecPerDay - 1)
           ELSE IsAt(pdOut.end, pdIn[2], 0)

\* parseDateRange returned for the last day of a leap February, given twice
C7_Witness ==
    /\ pdOut.called
    /\ pdIn = <<DateStr(TRUE, 2024, 2, 29), DateStr(TRUE, 2024, 2, 29)>>
    /\ pdOut.ok
    /\ pdOut.end - pdOut.start = SecPerDay - 1

(***************************************************************************)
(* Properties of the health summary.                                       *)
(***************************************************************************)
\* the handler of the health summary has answered after starting its tasks
SummaryReturned ==
    /\ call.tool = "get_health_summary"
    /\ pc["main"] = "idle"
    /\ \E k \in Kinds : pc[k] # "off"

\* C3: once one of the four fetches of a health summary failed,
\* AnalyzeHealthSummary is not run and no report is returned: the answer, when
\* it comes, is an error.
C3_NoPartialSummary ==
    (\E k \in Kinds : fres[k].state = "fail") =>
        /\ ~analyzed
        /\ reply.kind # "result"
        /\ reply.report = EmptyBatches
        /\ SummaryReturned => reply.kind = "error"

\* the workout fetch failed, the three others returned their records, and
\* the handler has answered
C3_Witness ==
    /\ SummaryReturned
    /\ fres["workout"].state = "fail"
    /\ \A k \in Kinds \ {"workout"} : fres[k].state = "done" /\ batches[k] # <<>>
    /\ reply.kind = "error"

\* a refresh exchange of task t is in flight
Refreshing(t) == pc[t] = "refreshing"

\* the next step of task t reads w.apiKey (doRequest) or writes it
ReadsApiKey(t) == pc[t] \in {"get", "retry"}
WritesApiKey(t) == pc[t] = "setkey"

\* the next step of task t reads w.refreshToken (the form of the refresh
\* POST) or may write it (the answer to the POST)
ReadsRefreshToken(t) == pc[t] = "refresh"
WritesRefreshToken(t) == pc[t] = "refreshing"

\* C4: at most one refresh exchange is in flight at any time, and no task is
\* about to read apiKey or refreshToken while another is about to write it.
C4_SingleFlightRefresh ==
    /\ Cardinality({t \in Tasks : Refreshing(t)}) <= 1
    /\ \A t, u \in Tasks :
          t # u => /\ ~(WritesApiKey(t) /\ ReadsApiKey(u))
                   /\ ~(WritesRefreshToken(t) /\ ReadsRefreshToken(u))

\* C8: the health summary answers only when its four tasks have finished,
\* each fetch that did not fail having run to its last page, and the error it
\* answers with is the first one sent on errCh.
C8_JoinThenFirstError ==
    SummaryReturned =>
        /\ \A k \in Kinds :
              /\ pc[k] = "done"
              /\ fres[k].state \in {"done", "fail"}
              /\ fres[k].state = "done" => batches[k] = Pages(Len(fx[k].served))
        /\ reply.kind = "error" <=> sendLog # <<>>
        /\ reply.kind = "error" => reply.err = sendLog[1]

\* two fetches failed, cycle before recovery, a third returned two pages, and
\* the handler answered with the error of cycle
C8_Witness ==
    /\ SummaryReturned
    /\ Len(sendLog) = 2
    /\ sendLog[1].src = "cycle"
    /\ sendLog[2].src = "recovery"
    /\ reply.err.src = "cycle"
    /\ \E k \in Kinds : fres[k].state = "done" /\ Len(fx[k].served) = 2

(***************************************************************************)
(* Properties of the rate limiter.                                         *)
(***************************************************************************)
\* C11: the rate limiter never rejects a request: no call of makeRequest
\* fails with a rate limiter error, however many goroutines call at once,
\* and every call that has to wait for a token is eventually let through.
C11_LimiterOnlyDelays ==
    /\ [](\A t \in Kinds : lw[t].st # "err")
    /\ \A t \in Kinds : (lw[t].st = "wait") ~> (lw[t].st = "ok")

\* all four goroutines are made to wait at once, the last for four intervals
C11_Witness ==
    /\ \A t \in Kinds : lw[t].st = "wait"
    /\ \E t \in Kinds : lw[t].delay = 4
    /\ limiter.tokens = -4

(***************************************************************************)
(* Properties of the health analyzer.                                      *)
(***************************************************************************)
\* analyzeStressIndicators returned for a batch that is not empty
StressAnalyzed ==
    /\ summary.by \in {"AnalyzeHealthSummary", "executeStressAnalysisTool"}
    /\ Len(recoveries) > 0

\* C12: for every recovery batch that is not empty the stress level is
\* critical exactly when the stress score is above 70, high exactly when it
\* is above 50 and at most 70, moderate exactly when it is above 30 and at
\* most 50, low exactly when it is at most 30: a score of 30, 50 or 70 is in
\* the lower class.
C12_StressLevelBoundaries ==
    StressAnalyzed =>
        \E level \in {summary.StressIndicators.StressLevel},
           score \in {summary.StressIndicators.PhysiologicalStress} :
            /\ level \in {"critical", "high", "moderate", "low"}
            /\ level = "critical" <=> Less(Float(70), score)
            /\ level = "high" <=> Less(Float(50), score) /\ ~Less(Float(70), score)
            /\ level = "moderate" <=> Less(Float(30), score) /\ ~Less(Float(50), score)
            /\ level = "low" <=> ~Less(Float(30), score)

\* a week of recovery score 0 with five days of elevated HRV and one of high
\* resting heart rate scores exactly 70, which is high
C12_Witness ==
    /\ StressAnalyzed
    /\ summary.StressIndicators.PhysiologicalStress = Float(70)
    /\ summary.StressIndicators.StressLevel = "high"
    /\ summary.StressIndicators.ElevatedHRVDays = 5
    /\ summary.StressIndicators.HighRestingHRDays = 1

\* the stress level given to a stress score, when some batch has that score
LevelOf(score, level) ==
    (StressAnalyzed /\ summary.StressIndicators.PhysiologicalStress = Float(score)) =>
        summary.StressIndicators.StressLevel = level

\* C13, as the analyzer has it: a stress score of 75 is critical, 55 is
\* high, 35 is moderate and 85 is critical.
C13_StressLevelExamples ==
    /\ LevelOf(75, "critical")
    /\ LevelOf(55, "high")
    /\ LevelOf(35, "moderate")
    /\ LevelOf(85, "critical")

\* a week of recovery score 0 with two days of elevated HRV and six of high
\* resting heart rate scores exactly 75
C13_Witness ==
    /\ StressAnalyzed
    /\ summary.StressIndicators.PhysiologicalStress = Float(75)
    /\ summary.StressIndicators.StressLevel = "critical"

\* C13 as stated: a stress score of 75 is low, 55 is high, 35 is moderate
\* and 85 is critical.
C13_AsStated ==
    /\ LevelOf(75, "low")
    /\ LevelOf(55, "high")
    /\ LevelOf(35, "moderate")
    /\ LevelOf(85, "critical")

\* C14: for every recovery batch that is not empty the physiological stress
\* score is within [0, 100], however many records there are and however
\* long the poor recovery streak is.
C14_StressScoreRange ==
    StressAnalyzed =>
        /\ ~Less(summary.StressIndicators.PhysiologicalStress, Zero)
        /\ ~Less(Float(100), summary.StressIndicators.PhysiologicalStress)


\* analyzeRecoveryTrend returned for a batch that is not empty
TrendAnalyzed ==
    /\ summary.by \in {"AnalyzeHealthSummary", "executeTrendAnalysisTool"}
    /\ Len(recoveries) > 0

\* the sum of the recovery scores of records from..to of a batch
ScoreSum(recs, from, to) ==
    SumInt([i \in 1..(to - from + 1) |-> recs[from + i - 1].RecoveryScore])

\* the mean of the second half less the mean of the first half of the
\* scores, split at floor(n/2), is above the limit: the means are sum1/len1
\* and sum2/len2, the mean of no scores is 0
HalvesDifferBy(recs, sign, limit) ==
    \E len1 \in {IF Len(recs) \div 2 = 0 THEN 1 ELSE Len(recs) \div 2},
       len2 \in {Len(recs) - Len(recs) \div 2},
       sum1 \in {ScoreSum(recs, 1, Len(recs) \div 2)},
       sum2 \in {ScoreSum(recs, Len(recs) \div 2 + 1, Len(recs))} :
        sign * (sum2 * len1 - sum1 * len2) > limit * len1 * len2

Ascending(recs) ==
    \A i \in 1..(Len(recs) - 1) : recs[i].CreatedAt < recs[i + 1].CreatedAt

\* the trend of the sorted batch is the one the halves of its scores give
TrendBySplit(enough) ==
    TrendAnalyzed =>
        /\ Ascending(recoveries)
        /\ summary.RecoveryTrend.Trend \in {"improving", "declining", "stable"}
        /\ summary.RecoveryTrend.Trend = "improving"
               <=> enough /\ HalvesDifferBy(recoveries, 1, 5)
        /\ summary.RecoveryTrend.Trend = "declining"
               <=> enough /\ HalvesDifferBy(recoveries, -1, 5)

\* the scores of a batch, in its order
Scores(recs) == [i \in 1..Len(recs) |-> recs[i].RecoveryScore]

\* C15, as the analyzer has it: for every recovery batch that is not empty
\* analyzeRecoveryTrend sorts the records by creation time ascending, the
\* same records in another order; for at least seven records it splits the
\* scores at floor(n/2) and the trend is improving exactly when the second
\* half's mean less the first half's is above 5, declining exactly when it
\* is below -5, else stable; for fewer than seven records the trend is
\* stable; the scores 70, 70, 70, 70, 70, 90, 90 give improving.
C15_TrendOfHalves ==
    /\ [](TrendBySplit(Len(recoveries) >= 7))
    /\ [](TrendAnalyzed /\ Scores(recoveries) = <<70, 70, 70, 70, 70, 90, 90>>
             => summary.RecoveryTrend.Trend = "improving")
    /\ [][summary'.by \in {"AnalyzeHealthSummary", "executeTrendAnalysisTool"}
             => /\ Range(recoveries') = Range(recoveries)
                /\ Len(recoveries') = Len(recoveries)
                /\ Ascending(recoveries')]_vars

\* the seven scores of the example, improving
C15_Witness ==
    /\ TrendAnalyzed
    /\ Scores(recoveries) = <<70, 70, 70, 70, 70, 90, 90>>
    /\ summary.RecoveryTrend.Trend = "improving"
    /\ summary.RecoveryTrend.WeeklyChange = Float(10)

\* C15 as stated: for every recovery batch that is not empty the trend is
\* improving exactly when the second half's mean less the first half's is
\* above 5, declining exactly when it is below -5, else stable.
C15_AsStated == TrendBySplit(TRUE)


FlagRaised(type) == \E i \in 1..Len(summary.RedFlags) : summary.RedFlags[i].Type = type

\* the three nights latest in time, all of them when there are fewer
latestSleep(data) ==
    The({Slice(sorted, IF Len(sorted) < 3 THEN 1 ELSE Len(sorted) - 2, Len(sorted))
            : sorted \in {sortByCreatedAt(data)}})

\* the mean of in-bed time less awake time over some nights is below a
\* number of hours
MeanSleepBelow(nights, hours) ==
    SumInt([i \in 1..Len(nights) |->
               nights[i].TotalInBedTimeMilli - nights[i].TotalAwakeTimeMilli])
        < hours * MilliPerHour * Len(nights)

\* C16: the red flag severe_sleep_deprivation is raised exactly when the
\* sleep batch is not empty and the mean sleep duration of the three nights
\* latest in time (of all nights when there are fewer) is below 5 hours, in
\* whatever order the remote returned the nights.
C16_SleepDeprivationOfLatestNights ==
    summary.by = "AnalyzeHealthSummary" =>
        (FlagRaised("severe_sleep_deprivation")
            <=> Len(sleepData) > 0 /\ MeanSleepBelow(latestSleep(sleepData), 5))

\* the up to seven records before the last three
baselineScoresUpTo7(recs) ==
    The({[i \in 1..(Len(recs) - 3 - from) |-> recs[from + i].RecoveryScore]
            : from \in {IF Len(recs) - 10 >= 0 THEN Len(recs) - 10 ELSE 0}})

\* the mean of the last three scores is more than 30 below the mean of the
\* baseline: sum3/3 < sum/len - 30
DropsBelow(recs, baseline) ==
    ScoreSum(recs, Len(recs) - 2, Len(recs)) * Len(baseline)
        < (SumInt(baseline) - 30 * Len(baseline)) * 3

\* C17: the red flag dramatic_recovery_decline, of severity high, is raised
\* exactly when the recovery batch has its three latest records and at least
\* one before them, and the mean score of the three latest is more than 30
\* below the mean score of the up to seven records just before them.
C17_DeclineAgainstBaseline ==
    summary.by = "AnalyzeHealthSummary" =>
        /\ FlagRaised("dramatic_recovery_decline")
               <=> Len(recoveries) >= 4 /\
                   DropsBelow(recoveries, baselineScoresUpTo7(recoveries))
        /\ \A i \in 1..Len(summary.RedFlags) :
               summary.RedFlags[i].Type = "dramatic_recovery_decline"
                   => summary.RedFlags[i].Severity = "high"

\* C18: on empty input no analysis function fails and each returns its
\* sentinel: analyzeRecoveryTrend the trend no_data with every number zero
\* and no last seven days, analyzeSleepPatterns the sleep quality trend
\* no_data, analyzeStressIndicators the stress level unknown, and
\* analyzeActivityPatterns without workouts and cycles unknown for the
\* intensity balance and the overtraining risk.
C18_EmptyInputSentinels ==
    /\ (summary.by \in {"AnalyzeHealthSummary", "executeTrendAnalysisTool"}
           /\ Len(recoveries) = 0) =>
           summary.RecoveryTrend =
               [AverageScore |-> Zero, Trend |-> "no_data", WeeklyChange |-> Zero,
                ConsistencyScore |-> Zero, LastSevenDays |-> <<>>]
    /\ (summary.by \in {"AnalyzeHealthSummary", "executeStressAnalysisTool"}
           /\ Len(recoveries) = 0) =>
           summary.StressIndicators.StressLevel = "unknown"
    /\ (summary.by = "AnalyzeHealthSummary" /\ Len(sleepData) = 0) =>
           summary.SleepAnalysis.SleepQualityTrend = "no_data"
    /\ (summary.by = "AnalyzeHealthSummary" /\ Len(workouts) = 0 /\ Len(cycles) = 0) =>
           /\ summary.ActivityPatterns.IntensityBalance = "unknown"
           /\ summary.ActivityPatterns.OvertrainingRisk = "unknown"

\* AnalyzeHealthSummary returned for four empty batches
C18_Witness ==
    /\ summary.by = "AnalyzeHealthSummary"
    /\ Len(recoveries) = 0 /\ Len(sleepData) = 0 /\ Len(workouts) = 0 /\ Len(cycles) = 0
    /\ summary.RecoveryTrend.Trend = "no_data"
    /\ summary.SleepAnalysis.SleepQualityTrend = "no_data"
    /\ summary.StressIndicators.StressLevel = "unknown"
    /\ summary.ActivityPatterns.IntensityBalance = "unknown"
    /\ summary.ActivityPatterns.OvertrainingRisk = "unknown"

(***************************************************************************)
(* Properties of the best-effort .env write.                               *)
(***************************************************************************)
\* the refresh of task t's current makeRequest call returned a token
Refreshed(t) ==
    /\ mr[t].refreshes = 1
    /\ pc[t] # "refreshing"
    /\ ~RefreshFailed(t)

\* the refresh returned a token that .env does not hold: updateEnvFile could
\* not write the file
PersistFailed(t) == Refreshed(t) /\ envFile.apiKey # newToken[t]

\* a step in which the token endpoint answers task t with a token
RefreshSucceeds(t) == pc[t] = "refreshing" /\ pc'[t] = "setkey"

\* a step in which the retry of task t is answered 200 with a body of the
\* kind asked for
RetrySucceeds(t) ==
    /\ pc[t] = "retry"
    /\ mr'[t].second = 200
    /\ mr'[t].body2.t = (IF cur[t] = "user" THEN "user" ELSE "page")

\* C19: what a fetch returns does not depend on whether the refreshed tokens
\* could be written to .env. A refresh fails only for what the token endpoint
\* answered; when it returns a token, the client and the token it leaves are
\* those of a refresh whose write succeeded; and when the write failed, the
\* client's apiKey is still replaced by the new token, the request is still
\* retried, and a retry that succeeds makes the call and the fetch succeed.
C19_PersistIsBestEffort ==
    /\ [](\A t \in Tasks :
            /\ RefreshFailed(t) =>
                   mr[t].res.err.cause \in {"transport", "status", "parse"}
            /\ PersistFailed(t) =>
                   /\ newToken[t] # 0
                   /\ pc[t] # "setkey" => w.apiKey = newToken[t]
                   /\ mr[t].done => mr[t].retries = 1)
    /\ [][\A t \in Tasks :
            /\ RefreshSucceeds(t) =>
                   \E o \in RefreshOutcomes :
                       /\ o.ok
                       /\ w' = refreshAccessToken(w, envFile, o, TRUE).w
                       /\ newToken'[t] = o.access
                       /\ mr'[t] = mr[t]
                       /\ envFile' \in {envFile,
                                        refreshAccessToken(w, envFile, o, TRUE).env}
            /\ (PersistFailed(t) /\ RetrySucceeds(t)) =>
                   /\ mr'[t].done
                   /\ mr'[t].res = Ok(mr'[t].body2)
                   /\ cur[t] \in Kinds =>
                          \/ pc'[t] = "get"
                          \/ fres'[cur[t]].state = "done"]_vars

\* a fetch whose page was answered 401 returned its records although the
\* tokens of the refresh never reached .env
C19_Witness ==
    \E t \in Tasks :
        /\ PersistFailed(t)
        /\ envFile = [apiKey |-> 0, refreshToken |-> 0]
        /\ mr[t].done
        /\ mr[t].first = 401
        /\ mr[t].second = 200
        /\ mr[t].res.ok
        /\ w.apiKey = 2
        /\ \E k \in Kinds : fres[k].state = "done"

(***************************************************************************)
(* Properties of executeTrendAnalysisTool.                                 *)
(***************************************************************************)
\* the trend tool of the current request has sent a fetch
TrendFetching == call.tool = "analyze_health_trends" /\ sent > 0

\* the number of days the current request asks for, 14 when it gives none
DaysAsked == IF call.days = 0 THEN 14 ELSE call.days

\* the fetch window of the current request spans n days and ends now
WindowOf(n) == call.win.end = Now /\ call.win.start = AddDays(Now, 0 - n)

\* every fetch of analyze_health_trends is over the days asked for, 14 when
\* none are given, ending at the time of the call
TrendWindowAsAsked == TrendFetching => WindowOf(DaysAsked)

\* C20: every fetch of analyze_health_trends is over a window of N days ending
\* at the time of the call, N being the days asked for or 14 when none are
\* given, and N lies within 7..90: a request for fewer than 7 or more than 90
\* days fetches nothing.
C20_TrendWindowWithinRange ==
    TrendFetching => WindowOf(DaysAsked) /\ DaysAsked \in 7..90

(***************************************************************************)
(* Properties of the fetch loops.                                          *)
(***************************************************************************)
\* task t is inside a fetch loop: about to call makeRequest, or in it
InFetch(t) == cur[t] \in Kinds /\ (pc[t] = "get" \/ InMakeRequest(t))

\* a step in which a GET of the fetch for record kind k is sent
GetSent(k) == fx'[k].gets = fx[k].gets + 1

\* a step in which a page arrives for the fetch of task t
PageArrives(t) ==
    /\ cur[t] \in Kinds
    /\ pc[t] \in {"get", "retry"}
    /\ Len(fx'[cur[t]].served) = Len(fx[cur[t]].served) + 1

\* the page that arrived last for record kind k
LastServed(k) == fx[k].served[Len(fx[k].served)]

\* C21: within one fetch the pages are asked for one after the other: every
\* GET is sent by the task of the fetch when it stands before a request, with
\* the cursor of the loop, which is empty before the first page and else the
\* cursor that came with the page parsed last, whose records are appended by
\* then. Between the fetches of a health summary no order is imposed: a task
\* that stands before a request can always send it, whatever the others do.
C21_PagesOneAfterTheOther ==
    /\ [](\A t \in Tasks :
            InFetch(t) =>
                /\ nextToken[t] = Len(fx[cur[t]].served)
                /\ fx[cur[t]].served = [i \in 1..Len(fx[cur[t]].served) |-> i]
                /\ acc[t] = Pages(Len(fx[cur[t]].served))
                /\ InMakeRequest(t) => mr[t].url1 = Url(cur[t], nextToken[t]))
    /\ [](\A t \in Kinds : pc[t] = "get" => ENABLED makeRequestTry(t))
    /\ [][/\ \A k \in Kinds :
                GetSent(k) =>
                    \E t \in Tasks :
                        /\ cur[t] = k
                        /\ pc[t] \in {"get", "retry"}
                        /\ mr'[t].url1 = Url(k, nextToken[t])
                        /\ mr'[t].retries = 1 => mr'[t].url2 = Url(k, nextToken[t])
          /\ \A t \in Tasks :
                PageArrives(t) =>
                    IF cursors' < cursors
                    THEN /\ pc'[t] = "get"
                         /\ nextToken'[t] = LastServed(cur[t])'
                         /\ acc'[t] = acc[t] \o PageData(LastServed(cur[t])')
                    ELSE ~InFetch(t)' \/ cur'[t] # cur[t]]_vars

\* the fetches of a health summary interleave and end in any order: the sleep
\* fetch has returned, the cycle fetch stands before its second page, the
\* recovery fetch is in the refresh after its first request, and the workout
\* fetch has sent nothing yet
C21_Witness ==
    /\ call.tool = "get_health_summary"
    /\ fres["sleep"].state = "done"
    /\ pc["cycle"] = "get"
    /\ nextToken["cycle"] = 1
    /\ fx["cycle"].served = <<1>>
    /\ InMakeRequest("recovery")
    /\ fx["recovery"].gets = 1
    /\ fx["workout"].gets = 0

(***************************************************************************)
(* Properties of the order and the frame of the analysis.                  *)
(***************************************************************************)
\* analyzeStressIndicators has returned, called by the health summary or by
\* the stress tool
StressReported == summary.by \in {"AnalyzeHealthSummary", "executeStressAnalysisTool"}

\* the stress indicators of the health summary are those of the batch walked
\* from its oldest record to its newest
SummaryStressIsChronological ==
    summary.by = "AnalyzeHealthSummary" =>
        summary.StressIndicators = analyzeStressIndicators(sortByCreatedAt(recoveries))

\* C22: whoever calls it and in whatever order the batch arrives,
\* analyzeStressIndicators walks the recoveries from the oldest to the newest:
\* what it reports is what it reports for the batch sorted by creation time,
\* where the baselines of a record are the means over the records before it
\* and the streak counts consecutive days of a score below 33.
C22_StressWalkIsChronological ==
    StressReported =>
        summary.StressIndicators = analyzeStressIndicators(sortByCreatedAt(recoveries))

\* a call of the analyzer leaves the sleep, workout and cycle batches as they
\* were, and leaves the recovery batch with the records it had
OtherBatchesUnchanged ==
    [][/\ sleepData' = sleepData
       /\ workouts' = workouts
       /\ cycles' = cycles
       /\ Len(recoveries') = Len(recoveries)
       /\ {recoveries'[i] : i \in 1..Len(recoveries')}
              = {recoveries[i] : i \in 1..Len(recoveries)}]_vars

\* C23: AnalyzeHealthSummary and the analysis functions leave the batches
\* they are given unchanged: after a call each batch holds the same records
\* in the same order as before it.
C23_BatchesUnchanged ==
    [][/\ recoveries' = recoveries
       /\ sleepData' = sleepData
       /\ workouts' = workouts
       /\ cycles' = cycles]_vars

(***************************************************************************)
(* Properties of generateTherapyInsights.                                  *)
(***************************************************************************)
\* the nine rules in the order of the source: what the text of the insight
\* is about, its category, and whether it applies to the analyses at hand
InsightRules ==
    << [about |-> "scores have declined", category |-> "recovery",
        holds |-> summary.RecoveryTrend.Trend = "declining"],
       [about |-> "high variability", category |-> "recovery",
        holds |-> ConsistencyBelow(summary.RecoveryTrend.ConsistencyScore, Rat(6, 10))],
       [about |-> "duration below recommended", category |-> "sleep",
        holds |-> Less(summary.SleepAnalysis.AverageHours, Float(7))],
       [about |-> "efficiency", category |-> "sleep",
        holds |-> Less(summary.SleepAnalysis.AverageEfficiency, Rat(85, 100))],
       [about |-> "quality declining", category |-> "sleep",
        holds |-> summary.SleepAnalysis.SleepQualityTrend = "declining"],
       [about |-> "elevated stress", category |-> "stress",
        holds |-> summary.StressIndicators.StressLevel \in {"high", "critical"}],
       [about |-> "extended poor recovery", category |-> "stress",
        holds |-> summary.StressIndicators.PoorRecoveryStreak >= 3],
       [about |-> "high training load", category |-> "activity",
        holds |-> summary.ActivityPatterns.OvertrainingRisk = "high"],
       [about |-> "no recorded activity", category |-> "activity",
        holds |-> summary.ActivityPatterns.WeeklyWorkouts = 0] >>

\* the severity rule r gives its insight
SeverityOf(r) ==
    CASE r \in {1, 4, 5, 8} -> "concern"
      [] r \in {2, 9} -> "info"
      [] r = 3 -> IF Less(summary.SleepAnalysis.AverageHours, Float(6))
                  THEN "alert" ELSE "concern"
      [] OTHER -> "alert"

\* the places of the insights of rule r in the list returned
PlacesOf(r) ==
    {i \in 1..Len(summary.TherapyInsights) :
        summary.TherapyInsights[i].Insight = InsightRules[r].about}

\* generateTherapyInsights has returned
InsightsGenerated == summary.by \in {"generateTherapyInsights", "AnalyzeHealthSummary"}

\* C24: each of the nine rules gives exactly one insight when its condition
\* holds and none when it does not, whatever the other rules give; the
\* insights come in the order of the rules; each has the category and the
\* severity of its rule (for the sleep duration: alert below 6 hours, else
\* concern), and none has an empty category, text or severity.
C24_NineIndependentRules ==
    InsightsGenerated =>
        /\ \A r \in 1..9 :
              /\ Cardinality(PlacesOf(r)) = (IF InsightRules[r].holds THEN 1 ELSE 0)
              /\ \A i \in PlacesOf(r) :
                    /\ summary.TherapyInsights[i].Category = InsightRules[r].category
                    /\ summary.TherapyInsights[i].Severity = SeverityOf(r)
        /\ \A i \in 1..Len(summary.TherapyInsights) :
              /\ \E r \in 1..9 : i \in PlacesOf(r)
              /\ summary.TherapyInsights[i].Category # ""
              /\ summary.TherapyInsights[i].Insight # ""
              /\ summary.TherapyInsights[i].Severity # ""
        /\ \A q, r \in 1..9 :
              \A i \in PlacesOf(q), j \in PlacesOf(r) : q < r => i < j

\* the analyses of the repository's test: recovery declining and inconsistent,
\* 5.5 hours of sleep at 75% efficiency and declining, stress high with a
\* streak of five, no workouts, low overtraining risk: eight insights
C24_Witness ==
    /\ summary.by = "generateTherapyInsights"
    /\ summary.RecoveryTrend.Trend = "declining"
    /\ summary.RecoveryTrend.ConsistencyScore = Rat(4, 10)
    /\ summary.SleepAnalysis.AverageHours = Rat(11, 2)
    /\ summary.SleepAnalysis.AverageEfficiency = Rat(75, 100)
    /\ summary.SleepAnalysis.SleepQualityTrend = "declining"
    /\ summary.StressIndicators.StressLevel = "high"
    /\ summary.StressIndicators.PoorRecoveryStreak = 5
    /\ summary.ActivityPatterns.WeeklyWorkouts = 0
    /\ summary.ActivityPatterns.OvertrainingRisk = "low"
    /\ Len(summary.TherapyInsights) = 8
    /\ summary.TherapyInsights[3].Severity = "alert"

(***************************************************************************)
(* Properties of analyzeSleepPatterns.                                     *)
(***************************************************************************)
\* analyzeSleepPatterns has returned for a batch that is not empty
SleepAnalyzed == summary.by = "AnalyzeHealthSummary" /\ sleepData # <<>>

\* the arithmetic mean of the whole numbers f[1], ..., f[Len(f)], each over
\* the divisor d
MeanOver(f, d) == Rat(SumInt(f), d * Len(f))

\* the hours, efficiencies and debts reported are the arithmetic means of the
\* nights' values
SleepMeansAreMeans ==
    SleepAnalyzed =>
        /\ summary.SleepAnalysis.AverageHours =
               MeanOver([i \in 1..Len(sleepData) |->
                            sleepData[i].TotalInBedTimeMilli
                                - sleepData[i].TotalAwakeTimeMilli], MilliPerHour)
        /\ summary.SleepAnalysis.AverageEfficiency =
               MeanOver([i \in 1..Len(sleepData) |->
                            sleepData[i].SleepEfficiencyPercentage], 100)
        /\ summary.SleepAnalysis.AverageDebt =
               MeanOver([i \in 1..Len(sleepData) |->
                            sleepData[i].NeededMilli
                                - (sleepData[i].TotalInBedTimeMilli
                                       - sleepData[i].TotalAwakeTimeMilli)], MilliPerHour)

\* C25: for every sleep batch that is not empty, DisturbanceFrequency is the
\* arithmetic mean of the nights' disturbance counts: 1.5 for the counts 1
\* and 2.
C25_DisturbanceFrequencyIsMean ==
    SleepAnalyzed =>
        summary.SleepAnalysis.DisturbanceFrequency =
            MeanOver([i \in 1..Len(sleepData) |-> sleepData[i].DisturbanceCount], 1)

(***************************************************************************)
(* Properties of the rule engine on empty input.                           *)
(***************************************************************************)
\* the categories of the insights of the summary
InsightCategories ==
    {summary.TherapyInsights[i].Category : i \in 1..Len(summary.TherapyInsights)}

\* with no batch at all no red flag is raised, and with no recoveries no
\* stress insight is emitted
NoFlagFromNothing ==
    summary.by = "AnalyzeHealthSummary" =>
        /\ recoveries = <<>> => "stress" \notin InsightCategories
        /\ (recoveries = <<>> /\ sleepData = <<>> /\ workouts = <<>> /\ cycles = <<>>)
               => summary.RedFlags = <<>>

\* C26: no insight stems from the summary of an empty batch: without
\* recoveries there is no recovery insight, without sleep records no sleep
\* insight, without workouts and cycles no activity insight; with the four
\* batches empty there are no insights and no red flags.
C26_NoInsightFromSentinels ==
    summary.by = "AnalyzeHealthSummary" =>
        /\ recoveries = <<>> => "recovery" \notin InsightCategories
        /\ sleepData = <<>> => "sleep" \notin InsightCategories
        /\ (workouts = <<>> /\ cycles = <<>>) => "activity" \notin InsightCategories
        /\ (recoveries = <<>> /\ sleepData = <<>> /\ workouts = <<>> /\ cycles = <<>>)
               => (summary.TherapyInsights = <<>> /\ summary.RedFlags = <<>>)

(***************************************************************************)
(* Properties of a fetch whose page request fails.                         *)
(***************************************************************************)
\* a step in which a makeRequest call of the fetch of task t returns an
\* error, or a body that is no page
PageFails(t) ==
    /\ cur[t] \in Kinds
    /\ pc[t] \in {"get", "refreshing", "retry"}
    /\ mr'[t] # mr[t]
    /\ mr'[t].done
    /\ ~mr'[t].res.ok \/ mr'[t].res.body.t # "page"

\* C27: when a page request of a fetch fails (no response, a status other
\* than 200, a 401 after the refresh, a failed refresh, a body that does not
\* parse), the fetch returns an error and no records, whatever pages it had
\* received, nothing is stored in the result, and the fetch sends no request
\* after the failing one.
C27_FailedFetchReturnsNothing ==
    /\ [](\A k \in Kinds :
            fres[k].state = "fail" =>
                /\ fres[k].data = <<>>
                /\ fres[k].err # NoErr
                /\ batches[k] = <<>>
                /\ \A t \in Tasks : cur[t] = k => ~InFetch(t))
    /\ [][/\ \A t \in Tasks :
                PageFails(t) =>
                    /\ fres'[cur[t]].state = "fail"
                    /\ fres'[cur[t]].data = <<>>
                    /\ ~InFetch(t)'
          /\ \A k \in Kinds :
                (fres[k].state = "fail" /\ reqs' = reqs) =>
                    /\ fx'[k] = fx[k]
                    /\ fres'[k] = fres[k]]_vars

\* a fetch failed on its second page, having received the two records of
\* its first
C27_Witness ==
    \E k \in Kinds :
        /\ fres[k].state = "fail"
        /\ fx[k].served = <<1>>
        /\ fx[k].gets >= 2
        /\ fres[k].data = <<>>
        /\ reply.kind = "error"

(***************************************************************************)
(* Properties of the join of the health summary.                           *)
(***************************************************************************)
\* the four fetches of the health summary have returned, with records or
\* with an error
AllFetchesReturned ==
    /\ call.tool = "get_health_summary"
    /\ \A k \in Kinds : fres[k].state \in {"done", "fail"}

\* a step that changes the result variable of record kind k
WritesResult(k) == batches'[k] # batches[k]

\* a step in which the handler reads the errors or the results: it receives
\* from errCh, runs AnalyzeHealthSummary, or answers
ReadsResults ==
    /\ pc["main"] = "join"
    /\ \/ Len(errCh') < Len(errCh)
       \/ analyzed' # analyzed
       \/ reply' # reply

\* C28: a task of the health summary that has an error to report can always
\* send it: errCh never holds more than the four errors it has room for, so
\* once the four fetches have returned the handler returns, however many of
\* them failed. A task writes the result variable of its own fetch and no
\* other, and the handler reads the errors and the results only when the
\* four tasks are done.
C28_JoinNeverBlocks ==
    /\ [](\A t \in Kinds : pc[t] = "send" => ENABLED SendError(t))
    /\ [](Len(errCh) <= Cardinality({k \in Kinds : fres[k].state = "fail"}))
    /\ AllFetchesReturned ~> SummaryReturned
    /\ [][/\ \A k \in Kinds :
                WritesResult(k) =>
                    /\ pc[k] = "get"
                    /\ pc'[k] = "done"
                    /\ \A j \in Kinds \ {k} : ~WritesResult(j)
          /\ ReadsResults => wgWait]_vars

\* the four fetches failed, their four errors were sent, and the handler
\* answered with an error
C28_Witness ==
    /\ SummaryReturned
    /\ Len(sendLog) = 4
    /\ \A k \in Kinds : fres[k].state = "fail"
    /\ reply.kind = "error"

(***************************************************************************)
(* Properties of the initialized flag.                                     *)
(***************************************************************************)
\* the methods that need a successful initialize first
GatedMethods == {"tools/list", "tools/call", "resources/list", "resources/read"}

\* a step in which an outbound request is sent or a rate-limiter slot taken
CallsOut == sent' > sent \/ acquired' > acquired

Returned(k) == fres[k].state \in {"done", "fail"}

\* a step in which the fetch for record kind k returns
Returns(k) == ~Returned(k) /\ Returned(k)'

\* the pages the fetch for record kind k has received
Received(k) == Len(fx[k].served)

\* the remote's chain of pages ends
ChainEnds == cursors # Endless

\* C30: with a rate limiter that grants every slot in the end and a remote
\* that answers every request, a fetch over a chain of pages that ends
\* returns: with the records of its n pages after exactly n page responses,
\* the last of which came with an empty cursor, or with an error at its first
\* failing request; it sends nothing after it returned. The loop has no page
\* cap and does not compare cursors: against a remote that returns a cursor
\* with every page the fetch asks for the next page after every page, never
\* returns, and the health summary that waits for it never returns either.
C30_FetchEndsWithTheChain ==
    /\ \A k \in Kinds : (ChainEnds /\ InFetch(k)) ~> Returned(k)
    /\ (ChainEnds /\ pc["main"] = "join") ~> SummaryReturned
    /\ [](\A k \in Kinds :
            fres[k].state = "done" =>
                /\ Received(k) >= 1
                /\ fx[k].served = [i \in 1..Received(k) |-> i]
                /\ fres[k].data = Pages(Received(k))
                /\ fx[k].gets = Received(k) + fx[k].retries)
    /\ [][\A k \in Kinds :
            /\ Returns(k) =>
                    IF fres'[k].state = "done"
                    THEN PageArrives(k) /\ ChainEnds /\ cursors' = cursors
                    ELSE PageFails(k)
            /\ PageFails(k) => Returns(k)
            /\ GetSent(k) => ~Returned(k)]_vars
    /\ [](~ChainEnds =>
            /\ \A k \in Kinds :
                    /\ ~Returned(k)
                    /\ pc[k] # "off" => pc[k] = "get" /\ nextToken[k] = Received(k)
                    /\ pc[k] = "get" => ENABLED makeRequestTry(k)
            /\ ~SummaryReturned
            /\ pc["main"] = "join" => ~ENABLED Join)

\* against a remote that returns a cursor with every page, each of the four
\* fetches of a health summary has received MaxPages pages and stands before
\* its next request, while the handler waits for them
C30_Witness ==
    /\ ~ChainEnds
    /\ pc["main"] = "join"
    /\ \A k \in Kinds :
            /\ Received(k) = MaxPages
            /\ pc[k] = "get"
            /\ nextToken[k] = MaxPages
            /\ acc[k] = Pages(MaxPages)

\* a fetch over a chain of two pages returned the records of both, another
\* failed at its first request
C30_WitnessChainEnds ==
    /\ ChainEnds
    /\ SummaryReturned
    /\ \E k \in Kinds :
            /\ fres[k].state = "done"
            /\ fres[k].data = Pages(2)
    /\ \E k \in Kinds :
            /\ fres[k].state = "fail"
            /\ fx[k].served = <<>>

====
